---------------------------- MODULE Spec2Model ----------------------------
(***************************************************************************)
(* A model of bison: the dotted map (bison/utils.py, DotDict), and the     *)
(* configuration object that merges four such maps (bison/bison.py,        *)
(* Bison).                                                                 *)
(*                                                                         *)
(* Python values are records tagged by kind, the content in a field named  *)
(* after the kind (so two values of different kinds are unequal records    *)
(* and their contents are never compared):                                 *)
(*   none  - None                 int  - an int                            *)
(*   str   - a str                bool - True or False                     *)
(*   list  - a list (DotDict does not look into one)                       *)
(*   map   - a plain dict: a function from key segments to values          *)
(* A DotDict itself is the function of its top level (its nested values    *)
(* are plain dicts, as build_dot_value and the dict constructor make       *)
(* them).  A dotted key "a.b.c" is the sequence of its segments            *)
(* <<"a","b","c">>: key.count('.') == 0 is Len(key) = 1, and               *)
(* key.split('.', 1) is <<Head(key), Tail(key)>>.  The content of a str is *)
(* the sequence of its characters.                                         *)
(***************************************************************************)
EXTENDS Integers, Sequences, FiniteSets, TLC

VARIABLES
    dd,        \* SpecMap: the DotDict under test
    bison,     \* Spec: the Bison object, a record of its attributes
    last       \* the last call: its arguments, the state before, its outcome

vars == <<dd, bison, last>>

---------------------------------------------------------------------------
\* Bounds of the model

\* nesting depth of the dict a DotDict is constructed from
MaxDepth == 2

\* segments of a dotted key
MaxKeyLen == 3

Segments == {"a", "b"}

---------------------------------------------------------------------------
\* Values

NoneV == [kind |-> "none"]
IntV(i) == [kind |-> "int", int |-> i]
StrV(s) == [kind |-> "str", str |-> s]
BoolV(b) == [kind |-> "bool", bool |-> b]
ListV(s) == [kind |-> "list", list |-> s]
MapV(f) == [kind |-> "map", map |-> f]

EmptyMap == [x \in {} |-> NoneV]
Single(k, v) == [x \in {k} |-> v]
\* dict.__setitem__(k, v) on a plain key
Put(f, k, v) == [x \in DOMAIN f \cup {k} |-> IF x = k THEN v ELSE f[x]]
\* dict.__delitem__(k) on a present key
Remove(f, k) == [x \in DOMAIN f \ {k} |-> f[x]]
\* dict.update(g)
Update(f, g) == [x \in DOMAIN f \cup DOMAIN g |-> IF x \in DOMAIN g THEN g[x] ELSE f[x]]

IsMap(v) == v.kind = "map"

\* the dotted keys of the model: 1..MaxKeyLen segments
DottedKeys == UNION {[1..n -> Segments] : n \in 1..MaxKeyLen}

\* the orders in which a dict's items may be enumerated (insertion order is
\* part of a Python dict; the model takes it as an input of the call)
Orders == {o \in [1..Cardinality(Segments) -> Segments] :
              \A i, j \in DOMAIN o : i # j => o[i] # o[j]}

\* the keys of u that ord lists, in the order of ord
RECURSIVE KeysIn(_, _)
KeysIn(u, ord) ==
    IF ord = <<>> THEN <<>>
    ELSE IF Head(ord) \in DOMAIN u
         THEN <<Head(ord)>> \o KeysIn(u, Tail(ord))
         ELSE KeysIn(u, Tail(ord))

\* the elements of a set, in one fixed order
RECURSIVE SetToSeq(_)
SetToSeq(S) ==
    IF S = {} THEN <<>>
    ELSE LET x == CHOOSE y \in S : TRUE IN <<x>> \o SetToSeq(S \ {x})

\* u.items(): the keys of u in enumeration order, the keys ord lists first
Items(u, ord) ==
    KeysIn(u, ord) \o SetToSeq(DOMAIN u \ {ord[i] : i \in DOMAIN ord})

---------------------------------------------------------------------------
\* bison/utils.py

\* the nested dicts around value for the segments keys: {k1: {k2: ... value}}
RECURSIVE Wrap(_, _)
Wrap(keys, value) ==
    IF keys = <<>> THEN value
    ELSE MapV(Single(Head(keys), Wrap(Tail(keys), value)))

\* build_dot_value(key, value): <<outermost key, value built for it>>
build_dot_value(key, value) ==
    IF Len(key) = 1 THEN <<key[1], value>>
    ELSE <<Head(key), Wrap(Tail(key), value)>>

\* __setitem__ that leaves an existing non-dict element of the path in place
RECURSIVE DotDict_setitem_keep(_, _, _)
DotDict_setitem_keep(d, key, value) ==
    IF Len(key) = 1 THEN Put(d, key[1], value)
    ELSE LET first == Head(key)
             remainder == Tail(key)
             kv == build_dot_value(key, value)
         IN  IF first \in DOMAIN d
             THEN IF IsMap(d[first])
                  THEN LET elem == d[first].map
                           sub == DotDict_setitem_keep(elem, remainder, value)
                       IN  Put(d, first, MapV(Update(elem, sub)))
                  ELSE d
             ELSE Put(d, kv[1], kv[2])

\* __setitem__ that assigns the value built for the first segment, whatever
\* that segment held
DotDict_setitem_replace(d, key, value) ==
    Put(d, build_dot_value(key, value)[1], build_dot_value(key, value)[2])

\* DotDict.__setitem__(key, value): the DotDict after the call
RECURSIVE DotDict_setitem(_, _, _)
DotDict_setitem(d, key, value) ==
    IF Len(key) = 1 THEN Put(d, key[1], value)
    ELSE LET first == Head(key)
             remainder == Tail(key)
             kv == build_dot_value(key, value)
         IN  IF first \in DOMAIN d
             THEN IF IsMap(d[first])
                  THEN LET elem == d[first].map
                           sub == DotDict_setitem(elem, remainder, value)
                       IN  Put(d, first, MapV(Update(elem, sub)))
                  ELSE Put(d, kv[1], kv[2])
             ELSE Put(d, kv[1], kv[2])

\* __contains__ that answers for the element reached when it is not a dict
RECURSIVE DotDict_contains_reached(_, _)
DotDict_contains_reached(d, item) ==
    IF Len(item) = 1 THEN item[1] \in DOMAIN d
    ELSE IF Head(item) \in DOMAIN d
    THEN IF IsMap(d[Head(item)])
         THEN DotDict_contains_reached(d[Head(item)].map, Tail(item))
         ELSE TRUE
    ELSE FALSE

\* DotDict.__contains__(item)
RECURSIVE DotDict_contains(_, _)
DotDict_contains(d, item) ==
    IF Len(item) = 1 THEN item[1] \in DOMAIN d
    ELSE LET first == Head(item)
             remainder == Tail(item)
         IN  IF first \in DOMAIN d
             THEN IF IsMap(d[first])
                  THEN DotDict_contains(d[first].map, remainder)
                  ELSE FALSE
             ELSE FALSE

\* DotDict.get(key, default)
RECURSIVE DotDict_get(_, _, _)
DotDict_get(d, key, default) ==
    IF Len(key) = 1
    THEN IF key[1] \in DOMAIN d THEN d[key[1]] ELSE default
    ELSE LET first == Head(key)
             remainder == Tail(key)
         IN  IF first \in DOMAIN d
             THEN LET value == d[first]
                  IN  IF IsMap(value)
                      \* the recursive call does not pass default on
                      THEN DotDict_get(value.map, remainder, NoneV)
                      \* value was rebound to the element found
                      ELSE value
             ELSE default

\* The loop of DotDict.delete from the segment Head(keys) on, dct being the
\* container reached.  [val: dct after the call, exc: the exception raised
\* or ""].  isDotDict: dct is the DotDict itself (the first iteration).
RECURSIVE delete_loop(_, _, _)
delete_loop(dct, keys, isDotDict) ==
    LET k == Head(keys)
        last_key == keys[Len(keys)]
    IN  IF k = last_key
        THEN \* del dct[k]
             IF IsMap(dct)
             THEN IF k \in DOMAIN dct.map
                  THEN [val |-> MapV(Remove(dct.map, k)), exc |-> ""]
                  ELSE [val |-> dct, exc |-> "KeyError"]
             ELSE [val |-> dct, exc |-> "TypeError"]
        ELSE IF isDotDict
        THEN \* dict.__getitem__(k), whatever the element is
             IF k \in DOMAIN dct.map
             THEN LET r == delete_loop(dct.map[k], Tail(keys), FALSE)
                  IN  [val |-> MapV(Put(dct.map, k, r.val)), exc |-> r.exc]
             ELSE [val |-> dct, exc |-> "KeyError"]
        ELSE \* dct.__getitem__(k) on whatever dct is
             IF IsMap(dct)
             THEN IF k \in DOMAIN dct.map
                  THEN IF IsMap(dct.map[k])
                       THEN LET r == delete_loop(dct.map[k], Tail(keys), FALSE)
                            IN  [val |-> MapV(Put(dct.map, k, r.val)), exc |-> r.exc]
                       ELSE [val |-> dct, exc |-> "KeyError"]
                  ELSE [val |-> dct, exc |-> "KeyError"]
             ELSE IF dct.kind \in {"int", "none"}
                  THEN [val |-> dct, exc |-> "AttributeError"]
                  ELSE [val |-> dct, exc |-> "TypeError"]

\* DotDict.delete(key): [val: the DotDict after the call, exc]
DotDict_delete(d, key) ==
    LET r == delete_loop(MapV(d), key, TRUE)
    IN  [val |-> r.val.map, exc |-> r.exc]

\* The loop of _merge(d, u) over the keys ks of u still to visit.
\* [val: what d is bound to when the loop ends, exc].  When a nested call
\* raises, d keeps what was written into it in place before.
RECURSIVE merge_loop(_, _, _, _)
merge_loop(d, u, ks, ord) ==
    IF ks = <<>> THEN [val |-> d, exc |-> ""]
    ELSE LET k == Head(ks)
             v == u[k]
         IN  IF IsMap(v)
             THEN \* d[k] = _merge(d.get(k, {}), v)
                  IF ~IsMap(d)
                  THEN [val |-> d, exc |-> "AttributeError"]
                  ELSE LET has == k \in DOMAIN d.map
                           sub == IF has THEN d.map[k] ELSE MapV(EmptyMap)
                           r == merge_loop(sub, v.map, Items(v.map, ord), ord)
                       IN  IF r.exc # ""
                           THEN [val |-> IF has /\ IsMap(sub)
                                         THEN MapV(Put(d.map, k, r.val))
                                         ELSE d,
                                 exc |-> r.exc]
                           ELSE merge_loop(MapV(Put(d.map, k, r.val)), u, Tail(ks), ord)
             ELSE IF IsMap(d)
             THEN \* d[k] = v
                  merge_loop(MapV(Put(d.map, k, v)), u, Tail(ks), ord)
             ELSE \* d = {k: v}
                  merge_loop(MapV(Single(k, v)), u, Tail(ks), ord)

\* _merge as dict.update: every key of u replaces the element of d
_merge_update(d, u, ord) == [val |-> MapV(Update(d.map, u)), exc |-> ""]

\* _merge that extends a list of d with the list u has under the same key
_merge_extend(d, u, ord) ==
    LET r == merge_loop(d, u, Items(u, ord), ord)
    IN  IF r.exc = "" /\ IsMap(d) /\ IsMap(r.val)
        THEN [val |-> MapV([k \in DOMAIN r.val.map |->
                                IF /\ k \in DOMAIN d.map \cap DOMAIN u
                                   /\ d.map[k].kind = "list"
                                   /\ u[k].kind = "list"
                                THEN ListV(d.map[k].list \o u[k].list)
                                ELSE r.val.map[k]]),
              exc |-> ""]
        ELSE r

\* _merge(d, u), u's items enumerated in the order ord
_merge(d, u, ord) == merge_loop(d, u, Items(u, ord), ord)

\* DotDict.merge(source): [val: the DotDict after the call, exc]
DotDict_merge(d, source, ord) ==
    LET r == _merge(MapV(d), source, ord)
    IN  [val |-> r.val.map, exc |-> r.exc]

---------------------------------------------------------------------------
\* Strings.  A Python str whose characters matter (an environment variable's
\* name or value, a prefix) is the sequence of its characters; the name of an
\* option, one segment of a dotted key, is one character.

Letters == <<"a", "b", "e", "f", "l", "p", "r", "s", "t", "u", "x">>
Capitals == <<"A", "B", "E", "F", "L", "P", "R", "S", "T", "U", "X">>
Digits == <<"0", "1", "2", "3", "4", "5", "6", "7", "8", "9">>

IndexIn(seq, c) == CHOOSE i \in DOMAIN seq : seq[i] = c
InSeq(seq, c) == \E i \in DOMAIN seq : seq[i] = c

\* str.upper(), str.lower()
upper_char(c) == IF InSeq(Letters, c) THEN Capitals[IndexIn(Letters, c)] ELSE c
lower_char(c) == IF InSeq(Capitals, c) THEN Letters[IndexIn(Capitals, c)] ELSE c
upper(s) == [i \in DOMAIN s |-> upper_char(s[i])]
lower(s) == [i \in DOMAIN s |-> lower_char(s[i])]

\* str.replace(old, new) for single characters
replace(s, old, new) == [i \in DOMAIN s |-> IF s[i] = old THEN new ELSE s[i]]

\* str.startswith(t), str.endswith(t)
startswith(s, t) == Len(t) <= Len(s) /\ SubSeq(s, 1, Len(t)) = t
endswith(s, t) == Len(t) <= Len(s) /\ SubSeq(s, Len(s) - Len(t) + 1, Len(s)) = t

\* str.split(sep) for a single character: the pieces, as character sequences
RECURSIVE split_from(_, _, _)
split_from(s, sep, piece) ==
    IF s = <<>> THEN <<piece>>
    ELSE IF Head(s) = sep
         THEN <<piece>> \o split_from(Tail(s), sep, <<>>)
         ELSE split_from(Tail(s), sep, Append(piece, Head(s)))
split(s, sep) == split_from(s, sep, <<>>)

\* the str of a character sequence, as one segment of a dotted key
RECURSIVE Segment(_)
Segment(chars) == IF chars = <<>> THEN "" ELSE Head(chars) \o Segment(Tail(chars))

\* the characters of a dotted key: its one-character segments joined by '.'
RECURSIVE KeyChars(_)
KeyChars(key) ==
    IF Len(key) = 1 THEN <<key[1]>>
    ELSE <<Head(key), ".">> \o KeyChars(Tail(key))

\* int(s): [ok, int].  An optional sign, then digits.
RECURSIVE DigitsValue(_, _)
DigitsValue(s, acc) ==
    IF s = <<>> THEN acc
    ELSE DigitsValue(Tail(s), 10 * acc + (IndexIn(Digits, Head(s)) - 1))
int_of(s) ==
    LET signed == s # <<>> /\ Head(s) \in {"-", "+"}
        body == IF signed THEN Tail(s) ELSE s
        ok == body # <<>> /\ \A i \in DOMAIN body : InSeq(Digits, body[i])
    IN  IF ok
        THEN [ok |-> TRUE,
              int |-> IF signed /\ Head(s) = "-"
                      THEN 0 - DigitsValue(body, 0) ELSE DigitsValue(body, 0)]
        ELSE [ok |-> FALSE, int |-> 0]

---------------------------------------------------------------------------
\* bison/scheme.py

\* the NoDefault instance
_no_default == [kind |-> "NoDefault"]

FloatV(n) == [kind |-> "float", float |-> n]

\* Option(name, default, field_type, choices, bind_env).  A type is named:
\* "none" (no type), "str", "int", "float", "bool", or another type's name.
\* choices is NoneV or a ListV.  bind_env is BoolV, StrV (a variable's name)
\* or NoneV.
Option(name, default, field_type, choices, bind_env) ==
    [cls |-> "Option", name |-> name, default |-> default, type |-> field_type,
     choices |-> choices, bind_env |-> bind_env, scheme |-> NoneV,
     member_type |-> "none", member_scheme |-> NoneV]

\* DictOption(name, scheme, default, bind_env)
DictOption(name, scheme, default, bind_env) ==
    [cls |-> "DictOption", name |-> name, default |-> default, type |-> "none",
     choices |-> NoneV, bind_env |-> bind_env, scheme |-> scheme,
     member_type |-> "none", member_scheme |-> NoneV]

\* ListOption(name, default, member_type, member_scheme, bind_env)
ListOption(name, default, member_type, member_scheme, bind_env) ==
    [cls |-> "ListOption", name |-> name, default |-> default, type |-> "none",
     choices |-> NoneV, bind_env |-> bind_env, scheme |-> NoneV,
     member_type |-> member_type, member_scheme |-> member_scheme]

\* Scheme(*args)
Scheme(args) == [kind |-> "Scheme", args |-> args]

\* isinstance(arg, _BaseOpt)
IsBaseOpt(arg) == arg.cls \in {"Option", "DictOption", "ListOption"}

\* the default bind_env of each constructor
Option_bind_env == NoneV
DictOption_bind_env == BoolV(FALSE)
ListOption_bind_env == BoolV(FALSE)

\* build_defaults_loop recording every DictOption with a scheme, its nested
\* defaults empty or not
RECURSIVE build_defaults_loop_always(_, _)
build_defaults_loop_always(args, defaults) ==
    IF args = <<>> THEN [val |-> defaults, exc |-> ""]
    ELSE IF ~IsBaseOpt(Head(args))
    THEN [val |-> defaults, exc |-> "InvalidSchemeError"]
    ELSE IF Head(args).cls = "DictOption" /\ Head(args).scheme # NoneV
    THEN build_defaults_loop_always(Tail(args),
             Put(defaults, Head(args).name,
                 MapV(build_defaults_loop_always(Head(args).scheme.args, EmptyMap).val)))
    ELSE IF Head(args).default # _no_default
    THEN build_defaults_loop_always(Tail(args),
                                    Put(defaults, Head(args).name, Head(args).default))
    ELSE build_defaults_loop_always(Tail(args), defaults)

\* The loop of Scheme.build_defaults over the args still to visit:
\* [val: the defaults dict, exc]
RECURSIVE build_defaults_loop(_, _)
build_defaults_loop(args, defaults) ==
    IF args = <<>> THEN [val |-> defaults, exc |-> ""]
    ELSE LET arg == Head(args)
         IN  IF ~IsBaseOpt(arg)
             THEN [val |-> defaults, exc |-> "InvalidSchemeError"]
             ELSE LET own == IF arg.default # _no_default
                             THEN Put(defaults, arg.name, arg.default)
                             ELSE defaults
                  IN  IF arg.cls = "DictOption" /\ arg.scheme # NoneV
                      THEN LET b == build_defaults_loop(arg.scheme.args, EmptyMap)
                           IN  IF b.exc # "" THEN [val |-> own, exc |-> b.exc]
                               ELSE IF b.val # EmptyMap
                               THEN build_defaults_loop(Tail(args), Put(own, arg.name, MapV(b.val)))
                               ELSE build_defaults_loop(Tail(args), own)
                      ELSE build_defaults_loop(Tail(args), own)

\* Scheme.build_defaults()
build_defaults(scheme) == build_defaults_loop(scheme.args, EmptyMap)

\* flat[k] = v on the flattened scheme, a dict kept as the sequence of its
\* items <<key, option>> in insertion order
flat_put(flat, k, v) ==
    IF \E i \in DOMAIN flat : flat[i][1] = k
    THEN [i \in DOMAIN flat |-> IF flat[i][1] = k THEN <<k, v>> ELSE flat[i]]
    ELSE Append(flat, <<k, v>>)

RECURSIVE flat_put_all(_, _, _)
flat_put_all(flat, name, items) ==
    IF items = <<>> THEN flat
    ELSE flat_put_all(flat_put(flat, <<name>> \o Head(items)[1], Head(items)[2]),
                      name, Tail(items))

\* flatten_loop without the descent into the scheme of a DictOption
RECURSIVE flatten_loop_shallow(_, _)
flatten_loop_shallow(args, flat) ==
    IF args = <<>> THEN flat
    ELSE IF IsBaseOpt(Head(args))
    THEN flatten_loop_shallow(Tail(args), flat_put(flat, <<Head(args).name>>, Head(args)))
    ELSE flatten_loop_shallow(Tail(args), flat)

\* The loop of Scheme.flatten over the args still to visit
RECURSIVE flatten_loop(_, _)
flatten_loop(args, flat) ==
    IF args = <<>> THEN flat
    ELSE LET arg == Head(args)
         IN  IF arg.cls \in {"Option", "ListOption"}
             THEN flatten_loop(Tail(args), flat_put(flat, <<arg.name>>, arg))
             ELSE IF arg.cls = "DictOption"
             THEN LET own == flat_put(flat, <<arg.name>>, arg)
                  IN  IF arg.scheme # NoneV
                      THEN flatten_loop(Tail(args),
                               flat_put_all(own, arg.name, flatten_loop(arg.scheme.args, <<>>)))
                      ELSE flatten_loop(Tail(args), own)
             ELSE flatten_loop(Tail(args), flat)

\* Scheme.flatten(): the items of the flattened dict, in order
flatten(scheme) == flatten_loop(scheme.args, <<>>)

\* the flattened dict as a value
Flat(items) == [kind |-> "flat", items |-> items]

\* Scheme.flatten() on a scheme whose self._flat is _flat: the dict returned,
\* which is self._flat after the call
Scheme_flatten(scheme, _flat) ==
    IF _flat = NoneV THEN Flat(flatten(scheme)) ELSE _flat

\* os.environ is the sequence of its items <<name, value>>, names distinct
\* os.environ.get(name, None)
environ_get(environ, name) ==
    IF \E i \in DOMAIN environ : environ[i][1] = name
    THEN StrV(environ[CHOOSE i \in DOMAIN environ : environ[i][1] = name][2])
    ELSE NoneV

\* Option.cast with bool(value) for the type bool: every string but the empty
\* one is true
cast_truthy(opt, value) ==
    IF opt.type \in {"none", "str"} THEN [val |-> StrV(value), exc |-> ""]
    ELSE IF opt.type \in {"int", "float"}
    THEN IF int_of(value).ok
         THEN [val |-> IF opt.type = "int" THEN IntV(int_of(value).int)
                       ELSE FloatV(int_of(value).int),
               exc |-> ""]
         ELSE [val |-> NoneV, exc |-> "BisonError"]
    ELSE IF opt.type = "bool" THEN [val |-> BoolV(value # <<>>), exc |-> ""]
    ELSE [val |-> NoneV, exc |-> "BisonError"]

\* Option.cast(value), value a character sequence: [val, exc].  float(value)
\* is taken on the strings int_of reads, as the float of that number; a string
\* with a point or an exponent is outside the strings of the model.
cast(opt, value) ==
    IF opt.type = "none" THEN [val |-> StrV(value), exc |-> ""]
    ELSE IF opt.type = "str" THEN [val |-> StrV(value), exc |-> ""]
    ELSE IF opt.type \in {"int", "float"}
    THEN IF int_of(value).ok
         THEN [val |-> IF opt.type = "int" THEN IntV(int_of(value).int)
                       ELSE FloatV(int_of(value).int),
               exc |-> ""]
         ELSE [val |-> NoneV, exc |-> "BisonError"]
    ELSE IF opt.type = "bool"
    THEN [val |-> BoolV(lower(value) = <<"t", "r", "u", "e">>), exc |-> ""]
    ELSE [val |-> NoneV, exc |-> "BisonError"]

\* the variable derived from a key: key.replace('.', '_').upper(), after
\* prefix.upper() if there is a prefix
derived_env_key(key, prefix) ==
    LET env_key == upper(replace(KeyChars(key), ".", "_"))
    IN  IF prefix # NoneV /\ prefix.str # <<>>
        THEN upper(prefix.str) \o env_key
        ELSE env_key

\* the lookup and cast common to the branches of Option.parse_env
lookup_and_cast(opt, env_key, environ) ==
    LET env == environ_get(environ, env_key)
    IN  IF env # NoneV THEN cast(opt, env.str) ELSE [val |-> NoneV, exc |-> ""]

\* Option.parse_env with an absent bind_env bound whatever auto_env is
Option_parse_env_bound(opt, key, prefix, auto_env, environ) ==
    IF opt.bind_env = BoolV(FALSE) THEN [val |-> NoneV, exc |-> ""]
    ELSE IF opt.bind_env.kind = "str"
    THEN lookup_and_cast(opt, opt.bind_env.str, environ)
    ELSE lookup_and_cast(opt, derived_env_key(key, prefix), environ)

\* Option.parse_env(key, prefix, auto_env): [val: the value or NoneV, exc]
Option_parse_env(opt, key, prefix, auto_env, environ) ==
    IF opt.bind_env = BoolV(FALSE) THEN [val |-> NoneV, exc |-> ""]
    ELSE IF opt.bind_env = BoolV(TRUE)
    THEN lookup_and_cast(opt, derived_env_key(key, prefix), environ)
    ELSE IF opt.bind_env.kind = "str"
    THEN lookup_and_cast(opt, opt.bind_env.str, environ)
    ELSE IF opt.bind_env = NoneV
    THEN IF auto_env
         THEN lookup_and_cast(opt, derived_env_key(key, prefix), environ)
         ELSE [val |-> NoneV, exc |-> ""]
    ELSE [val |-> NoneV, exc |-> ""]

\* the dotted key of the rest of a variable's name:
\* rest.replace('_', '.').lower(), split at the dots by DotDict
RestKey(rest) ==
    LET pieces == split(lower(replace(rest, "_", ".")), ".")
    IN  [i \in DOMAIN pieces |-> Segment(pieces[i])]

\* The loop of DictOption.parse_env over the items of os.environ
RECURSIVE dict_env_loop(_, _, _)
dict_env_loop(items, env_key, values) ==
    IF items = <<>> THEN values
    ELSE LET k == Head(items)[1]
             v == Head(items)[2]
         IN  IF startswith(k, env_key)
             THEN dict_env_loop(Tail(items), env_key,
                      DotDict_setitem(values,
                                      RestKey(SubSeq(k, Len(env_key) + 1, Len(k))),
                                      StrV(v)))
             ELSE dict_env_loop(Tail(items), env_key, values)

\* DictOption.parse_env(key, prefix, auto_env)
DictOption_parse_env(opt, key, prefix, auto_env, environ) ==
    IF opt.bind_env = BoolV(FALSE) THEN [val |-> NoneV, exc |-> ""]
    ELSE IF opt.bind_env = BoolV(TRUE)
    THEN LET derived == derived_env_key(key, prefix)
             env_key == IF endswith(derived, <<"_">>) THEN derived ELSE Append(derived, "_")
             values == dict_env_loop(environ, env_key, EmptyMap)
         IN  [val |-> IF values # EmptyMap THEN MapV(values) ELSE NoneV, exc |-> ""]
    ELSE [val |-> NoneV, exc |-> ""]

\* ListOption.parse_env(key, prefix, auto_env)
ListOption_parse_env(opt, key, prefix, auto_env, environ) ==
    IF opt.bind_env = BoolV(FALSE) THEN [val |-> NoneV, exc |-> ""]
    ELSE IF opt.bind_env = BoolV(TRUE)
    THEN LET value == environ_get(environ, derived_env_key(key, prefix))
         IN  IF value # NoneV /\ value.str # <<>>
             THEN LET pieces == split(value.str, ",")
                  IN  [val |-> ListV([i \in DOMAIN pieces |-> StrV(pieces[i])]), exc |-> ""]
             ELSE [val |-> NoneV, exc |-> ""]
    ELSE [val |-> NoneV, exc |-> ""]

\* v.parse_env(k, prefix, auto_env), dispatched on the option's class
parse_env(opt, key, prefix, auto_env, environ) ==
    IF opt.cls = "Option" THEN Option_parse_env(opt, key, prefix, auto_env, environ)
    ELSE IF opt.cls = "DictOption" THEN DictOption_parse_env(opt, key, prefix, auto_env, environ)
    ELSE ListOption_parse_env(opt, key, prefix, auto_env, environ)

\* type(value), by name
type_of(value) ==
    CASE value.kind = "none" -> "NoneType"
      [] value.kind = "map" -> "dict"
      [] OTHER -> value.kind

\* the number a bool, an int or a float is in a comparison
IsNumber(value) == value.kind \in {"bool", "int", "float"}
number_of(value) ==
    CASE value.kind = "bool" -> IF value.bool THEN 1 ELSE 0
      [] value.kind = "int" -> value.int
      [] value.kind = "float" -> value.float

\* x == y: numbers of different types compare by value (True == 1)
py_eq(x, y) ==
    IF IsNumber(x) /\ IsNumber(y) THEN number_of(x) = number_of(y) ELSE x = y

\* value in choices, choices a list
py_in(value, choices) ==
    \E i \in DOMAIN choices.list : py_eq(choices.list[i], value)

\* Option.validate with isinstance in place of the comparison of types: a
\* bool passes for int
Option_validate_isinstance(opt, value) ==
    IF opt.type # "none" /\ type_of(value) # opt.type
       /\ ~(opt.type = "int" /\ value.kind = "bool")
    THEN "SchemeValidationError"
    ELSE IF opt.choices # NoneV /\ ~py_in(value, opt.choices)
    THEN "SchemeValidationError"
    ELSE ""

\* Option.validate(value): the exception raised, "" for none
Option_validate(opt, value) ==
    IF opt.type # "none" /\ type_of(value) # opt.type
    THEN "SchemeValidationError"
    ELSE IF opt.choices # NoneV /\ ~py_in(value, opt.choices)
    THEN "SchemeValidationError"
    ELSE ""

\* isinstance(x, Scheme)
IsScheme(x) == x.kind = "Scheme"

\* the first exception of two steps, the second not run when the first raises
first_exc(e1, e2) == IF e1 # "" THEN e1 ELSE e2

RECURSIVE Scheme_validate(_, _)
RECURSIVE validate(_, _)

\* The loop of ListOption.validate that validates each item against the
\* member scheme
RECURSIVE member_scheme_loop(_, _)
member_scheme_loop(member_scheme, items) ==
    IF items = <<>> THEN ""
    ELSE first_exc(Scheme_validate(member_scheme, Head(items)),
                   member_scheme_loop(member_scheme, Tail(items)))

\* ListOption.validate with the checks of the members made per item only: an
\* empty list passes them all
ListOption_validate_per_item(opt, value) ==
    IF value.kind # "list" THEN "SchemeValidationError"
    ELSE IF value.list = <<>> THEN ""
    ELSE IF opt.member_scheme # NoneV /\ opt.member_type # "none"
    THEN "SchemeValidationError"
    ELSE IF /\ opt.member_type # "none"
            /\ \E i \in DOMAIN value.list : type_of(value.list[i]) # opt.member_type
    THEN "SchemeValidationError"
    ELSE IF opt.member_scheme # NoneV
    THEN IF ~IsScheme(opt.member_scheme) THEN "SchemeValidationError"
         ELSE member_scheme_loop(opt.member_scheme, value.list)
    ELSE ""

\* ListOption.validate(value)
ListOption_validate(opt, value) ==
    IF value.kind # "list" THEN "SchemeValidationError"
    ELSE IF opt.member_scheme # NoneV /\ opt.member_type # "none"
    THEN "SchemeValidationError"
    ELSE IF /\ opt.member_type # "none"
            /\ \E i \in DOMAIN value.list : type_of(value.list[i]) # opt.member_type
    THEN "SchemeValidationError"
    ELSE IF opt.member_scheme # NoneV
    THEN IF ~IsScheme(opt.member_scheme) THEN "SchemeValidationError"
         ELSE member_scheme_loop(opt.member_scheme, value.list)
    ELSE ""

\* DictOption.validate(value)
DictOption_validate(opt, value) ==
    IF ~IsMap(value) THEN "SchemeValidationError"
    ELSE IF IsScheme(opt.scheme) THEN Scheme_validate(opt.scheme, value)
    ELSE ""

\* arg.validate(value), dispatched on the option's class
validate(opt, value) ==
    IF opt.cls = "Option" THEN Option_validate(opt, value)
    ELSE IF opt.cls = "DictOption" THEN DictOption_validate(opt, value)
    ELSE ListOption_validate(opt, value)

\* validate_loop with every option taken as optional
RECURSIVE validate_loop_optional(_, _)
validate_loop_optional(args, config) ==
    IF args = <<>> THEN ""
    ELSE IF ~IsBaseOpt(Head(args)) THEN "AttributeError"
    ELSE IF Head(args).name \in DOMAIN config
    THEN first_exc(validate(Head(args), config[Head(args).name]),
                   validate_loop_optional(Tail(args), config))
    ELSE validate_loop_optional(Tail(args), config)

\* The loop of Scheme.validate over the args still to visit
RECURSIVE validate_loop(_, _)
validate_loop(args, config) ==
    IF args = <<>> THEN ""
    ELSE IF ~IsBaseOpt(Head(args)) THEN "AttributeError"
    ELSE IF Head(args).name \in DOMAIN config
    THEN first_exc(validate(Head(args), config[Head(args).name]),
                   validate_loop(Tail(args), config))
    ELSE IF Head(args).default = _no_default
    THEN "SchemeValidationError"
    ELSE validate_loop(Tail(args), config)

\* Scheme.validate(config), config a value of any kind
Scheme_validate(scheme, config) ==
    IF ~IsMap(config) THEN "SchemeValidationError"
    ELSE validate_loop(scheme.args, config.map)

---------------------------------------------------------------------------
\* bison/bison.py.  The object is the record of its attributes; _default,
\* _environment and _override are DotDicts, _config is the value the parser
\* returned (a dict, or None for an empty document), _full_config is NoneV
\* or the cached DotDict as a MapV.

\* Bison(scheme)
Bison(scheme) ==
    [scheme |-> scheme, config_paths |-> <<>>, config_file |-> NoneV,
     env_prefix |-> NoneV, auto_env |-> FALSE,
     _default |-> EmptyMap, _config |-> MapV(EmptyMap),
     _environment |-> EmptyMap, _override |-> EmptyMap,
     _full_config |-> NoneV]

\* self._full_config.merge(source) for a source of any kind: None has no
\* items()
merge_into(d, source, ord) ==
    IF IsMap(source) THEN DotDict_merge(d, source.map, ord)
    ELSE [val |-> d, exc |-> "AttributeError"]

\* the next merge of the config property, after the merges that gave m: not
\* reached when one of them raised
merge_next(m, source, ord) ==
    IF m.exc # "" THEN m ELSE merge_into(m.val, source, ord)

\* the four merges in the opposite order: overrides first, defaults last
merge_layers_reversed(b, ord) ==
    merge_next(merge_next(merge_next(merge_into(EmptyMap, MapV(b._override), ord),
                                     MapV(b._environment), ord),
                          b._config, ord),
               MapV(b._default), ord)

\* the four merges of the config property, started from DotDict(): [val, exc],
\* val what the cache holds when the merges end or one of them raises
merge_layers(b, ord) ==
    merge_next(merge_next(merge_next(merge_into(EmptyMap, MapV(b._default), ord),
                                     b._config, ord),
                          MapV(b._environment), ord),
               MapV(b._override), ord)

\* the object whose cache holds what the merges m left in it
with_cache(b, m) == [val |-> [b EXCEPT !._full_config = MapV(m.val)], exc |-> m.exc]

\* the config property: [val: the object after the read, exc]
Bison_config(b, ord) ==
    IF b._full_config = NoneV
    THEN with_cache(b, merge_layers(b, ord))
    ELSE [val |-> b, exc |-> ""]

\* self.config.get(key, default), c the outcome of reading self.config
config_get(c, key, default) ==
    [val |-> c.val,
     ret |-> IF c.exc = "" THEN DotDict_get(c.val._full_config.map, key, default)
             ELSE NoneV,
     exc |-> c.exc]

\* Bison.get(key, default): [val: the object after the call, ret, exc]
Bison_get(b, key, default, ord) == config_get(Bison_config(b, ord), key, default)

\* Bison.set(key, value)
Bison_set(b, key, value) ==
    [b EXCEPT !._full_config = NoneV,
              !._override = DotDict_setitem(@, key, value)]

\* Bison.add_config_paths(*paths)
Bison_add_config_paths(b, paths) == [b EXCEPT !.config_paths = @ \o paths]

\* self._default.update(d), d the outcome of build_defaults
default_update(b, d) ==
    IF d.exc # "" THEN [val |-> b, exc |-> d.exc]
    ELSE [val |-> [b EXCEPT !._default = Update(@, d.val)], exc |-> ""]

\* Bison._parse_default(): [val, exc]
_parse_default(b) ==
    IF b.scheme # NoneV
    THEN default_update([b EXCEPT !._full_config = NoneV], build_defaults(b.scheme))
    ELSE [val |-> [b EXCEPT !._full_config = NoneV], exc |-> ""]

\* _fmt_to_ext[YAML]
Exts == <<".yml", ".yaml">>

\* the paths _find_config tries, in order: a path is <<directory, extension>>
Candidates(config_paths) ==
    [n \in 1..(Len(config_paths) * Len(Exts)) |->
        <<config_paths[((n - 1) \div Len(Exts)) + 1], Exts[((n - 1) % Len(Exts)) + 1]>>]

\* the first of the paths c that is a file
first_file(b, c, found) ==
    IF found # {}
    THEN [val |-> [b EXCEPT !.config_file =
                      c[CHOOSE n \in found : \A m \in found : n <= m]],
          exc |-> ""]
    ELSE [val |-> b, exc |-> "BisonError"]

\* Bison._find_config(); fs maps the paths that are files to their content
_find_config(b, fs) ==
    first_file(b, Candidates(b.config_paths),
               {n \in DOMAIN Candidates(b.config_paths) :
                   Candidates(b.config_paths)[n] \in DOMAIN fs})

\* load_config with a failure to find the file never raised
load_config_lenient(b, f, requires_cfg, fs) ==
    IF f.exc # ""
    THEN [val |-> b, exc |-> ""]
    ELSE IF fs[f.val.config_file].kind = "garbled"
    THEN [val |-> f.val, exc |-> "BisonError"]
    ELSE [val |-> [f.val EXCEPT !._full_config = NoneV,
                                !._config = fs[f.val.config_file].doc],
          exc |-> ""]

\* load_config with requires_cfg = False suppressing the failure to load too
load_config_optional(b, f, requires_cfg, fs) ==
    IF f.exc # ""
    THEN IF ~requires_cfg THEN [val |-> b, exc |-> ""]
         ELSE [val |-> b, exc |-> f.exc]
    ELSE IF fs[f.val.config_file].kind = "garbled"
    THEN IF ~requires_cfg THEN [val |-> b, exc |-> ""]
         ELSE [val |-> f.val, exc |-> "BisonError"]
    ELSE [val |-> [f.val EXCEPT !._full_config = NoneV,
                                !._config = fs[f.val.config_file].doc],
          exc |-> ""]

\* Bison._parse_config after _find_config, f its outcome
load_config(b, f, requires_cfg, fs) ==
    IF f.exc # ""
    THEN IF ~requires_cfg THEN [val |-> b, exc |-> ""]
         ELSE [val |-> b, exc |-> f.exc]
    ELSE IF fs[f.val.config_file].kind = "garbled"
    THEN [val |-> f.val, exc |-> "BisonError"]
    ELSE [val |-> [f.val EXCEPT !._full_config = NoneV,
                                !._config = fs[f.val.config_file].doc],
          exc |-> ""]

\* Bison._parse_config(requires_cfg): [val, exc].  The content of a file is
\* [kind |-> "yaml", doc |-> the value safe_load returns] or, when reading or
\* loading it fails, [kind |-> "garbled"]
_parse_config(b, requires_cfg, fs) ==
    IF Len(b.config_paths) > 0
    THEN load_config(b, _find_config(b, fs), requires_cfg, fs)
    ELSE [val |-> b, exc |-> ""]

\* The loop of Bison._parse_env over the items of the flattened scheme:
\* [val: env_cfg, exc]
RECURSIVE parse_env_loop(_, _, _, _, _)

\* one item of the loop, value the outcome of its parse_env, and the items
\* after it
parse_env_item(k, value, items, prefix, auto_env, environ, env_cfg) ==
    IF value.exc # "" THEN [val |-> env_cfg, exc |-> value.exc]
    ELSE IF value.val # NoneV
    THEN parse_env_loop(items, prefix, auto_env, environ,
                        DotDict_setitem(env_cfg, k, value.val))
    ELSE parse_env_loop(items, prefix, auto_env, environ, env_cfg)

parse_env_loop(items, prefix, auto_env, environ, env_cfg) ==
    IF items = <<>> THEN [val |-> env_cfg, exc |-> ""]
    ELSE parse_env_item(Head(items)[1],
                        parse_env(Head(items)[2], Head(items)[1], prefix, auto_env, environ),
                        Tail(items), prefix, auto_env, environ, env_cfg)

\* the first statement of _parse_env without its test of the last character
normal_prefix_always(b) ==
    IF b.env_prefix # NoneV /\ b.env_prefix.str # <<>>
    THEN [b EXCEPT !.env_prefix = StrV(Append(b.env_prefix.str, "_"))]
    ELSE b

\* self.env_prefix after the first statement of _parse_env
normal_prefix(b) ==
    IF b.env_prefix # NoneV /\ b.env_prefix.str # <<>>
       /\ ~endswith(b.env_prefix.str, <<"_">>)
    THEN [b EXCEPT !.env_prefix = StrV(Append(b.env_prefix.str, "_"))]
    ELSE b

\* the end of _parse_env with the bindings resolved before an exception
\* applied
environment_update_partial(b, e) ==
    IF e.val # EmptyMap
    THEN [val |-> [b EXCEPT !._full_config = NoneV,
                            !._environment = Update(@, e.val)],
          exc |-> e.exc]
    ELSE [val |-> b, exc |-> e.exc]

\* the end of _parse_env, e the outcome of the loop
environment_update(b, e) ==
    IF e.exc # "" THEN [val |-> b, exc |-> e.exc]
    ELSE IF e.val # EmptyMap
    THEN [val |-> [b EXCEPT !._full_config = NoneV,
                            !._environment = Update(@, e.val)],
          exc |-> ""]
    ELSE [val |-> b, exc |-> ""]

\* _parse_env on the object with its prefix normalised
parse_env_scheme(b, environ) ==
    IF b.scheme # NoneV
    THEN environment_update(b, parse_env_loop(flatten(b.scheme), b.env_prefix,
                                              b.auto_env, environ, EmptyMap))
    ELSE [val |-> b, exc |-> ""]

\* Bison._parse_env(): [val, exc]
_parse_env(b, environ) == parse_env_scheme(normal_prefix(b), environ)

\* the phases of parse after one that gave p: not reached when it raised
then_parse_config(p, requires_cfg, fs) ==
    IF p.exc # "" THEN p ELSE _parse_config(p.val, requires_cfg, fs)
then_parse_env(p, environ) ==
    IF p.exc # "" THEN p ELSE _parse_env(p.val, environ)

\* parse with the environment phase run before the file phase
Bison_parse_env_first(b, requires_cfg, fs, environ) ==
    then_parse_config(then_parse_env(_parse_default(b), environ), requires_cfg, fs)

\* Bison.parse(requires_cfg): [val, exc]
Bison_parse(b, requires_cfg, fs, environ) ==
    then_parse_env(then_parse_config(_parse_default(b), requires_cfg, fs), environ)

---------------------------------------------------------------------------
\* Inputs of the calls

\* values stored by a set call
SetValues == {IntV(1), ListV(<<IntV(1)>>), MapV(Single("b", IntV(1)))}

\* defaults given to a get call
Defaults == {NoneV, StrV(<<"d", "f", "l", "t">>)}

\* all dicts of nesting depth <= n whose leaves are in leaves
RECURSIVE DictsUpTo(_, _)
DictsUpTo(n, leaves) ==
    IF n = 0 THEN {}
    ELSE LET inner == leaves \cup {MapV(f) : f \in DictsUpTo(n - 1, leaves)}
         IN  UNION {[D -> inner] : D \in SUBSET Segments}

\* the dict with the one path key, holding value
PathDict(key, value) == Single(build_dot_value(key, value)[1], build_dot_value(key, value)[2])

\* DotDict(dct): the dicts a DotDict is constructed from: every dict of depth
\* <= MaxDepth over one int leaf, and every single path ending in a list
InitDicts ==
    DictsUpTo(MaxDepth, {IntV(1)})
    \cup {PathDict(k, ListV(<<IntV(1)>>)) : k \in DottedKeys}

\* sources given to a merge call: every dict of depth < MaxDepth over one leaf,
\* and every single-path dict a dotted key builds
SourceLeaves == {IntV(2), ListV(<<IntV(2)>>)}
Sources ==
    DictsUpTo(MaxDepth - 1, {IntV(2)})
    \cup {PathDict(k, v) : k \in DottedKeys, v \in SourceLeaves}

\* a dict with two keys at some level: the order of enumeration shows
RECURSIVE Forks(_)
Forks(u) ==
    \/ Cardinality(DOMAIN u) > 1
    \/ \E k \in DOMAIN u : IsMap(u[k]) /\ Forks(u[k].map)

\* one order stands for all when the source has a single path
AscendingOrder == CHOOSE o \in Orders : o[1] = "a"
OrdersOf(u) == IF Forks(u) THEN Orders ELSE {AscendingOrder}

NoCall == [op |-> "none", key |-> <<>>, value |-> NoneV, default |-> NoneV,
           source |-> EmptyMap, ord |-> <<>>, paths |-> <<>>, requires_cfg |-> TRUE,
           fs |-> EmptyMap, environ |-> <<>>, pre |-> EmptyMap, ret |-> NoneV, exc |-> "",
           scheme |-> NoneV, config |-> NoneV, opt |-> NoneV, prefix |-> NoneV,
           auto_env |-> FALSE, calls |-> 0, _flat |-> NoneV, flat |-> NoneV, first |-> NoneV]

---------------------------------------------------------------------------
\* SpecMap: a DotDict constructed from a dict, and one call made on it

InitMap ==
    /\ dd \in InitDicts
    /\ bison = Bison(NoneV)
    /\ last = NoCall

MapSet(key, value) ==
    /\ last = NoCall
    /\ dd' = DotDict_setitem(dd, key, value)
    /\ last' = [NoCall EXCEPT !.op = "set", !.key = key, !.value = value, !.pre = dd]
    /\ UNCHANGED bison

MapGet(key, default) ==
    /\ last = NoCall
    /\ last' = [NoCall EXCEPT !.op = "get", !.key = key, !.default = default,
                              !.pre = dd, !.ret = DotDict_get(dd, key, default)]
    /\ UNCHANGED <<dd, bison>>

MapContains(key) ==
    /\ last = NoCall
    /\ last' = [NoCall EXCEPT !.op = "contains", !.key = key, !.pre = dd,
                              !.ret = BoolV(DotDict_contains(dd, key))]
    /\ UNCHANGED <<dd, bison>>

MapDelete(key) ==
    /\ last = NoCall
    /\ LET r == DotDict_delete(dd, key)
       IN  /\ dd' = r.val
           /\ last' = [NoCall EXCEPT !.op = "delete", !.key = key, !.pre = dd, !.exc = r.exc]
    /\ UNCHANGED bison

MapMerge(source, ord) ==
    /\ last = NoCall
    /\ LET r == DotDict_merge(dd, source, ord)
       IN  /\ dd' = r.val
           /\ last' = [NoCall EXCEPT !.op = "merge", !.source = source, !.ord = ord,
                                     !.pre = dd, !.exc = r.exc]
    /\ UNCHANGED bison

NextMap ==
    \/ \E key \in DottedKeys, value \in SetValues : MapSet(key, value)
    \/ \E key \in DottedKeys, default \in Defaults : MapGet(key, default)
    \/ \E key \in DottedKeys : MapContains(key)
    \/ \E key \in DottedKeys : MapDelete(key)
    \/ \E source \in Sources : \E ord \in OrdersOf(source) : MapMerge(source, ord)

SpecMap == InitMap /\ [][NextMap]_vars

---------------------------------------------------------------------------
\* Spec: a Bison object, configured after construction, and the calls made
\* on it, one at a time: a call leaves its outcome in last, and the caller
\* takes it before the next call

\* the longest search-path list
MaxPaths == 2

\* keys given to Bison.set and Bison.get
ResolverKeys == {<<"a">>, <<"b">>, <<"a", "b">>, <<"a", "b", "a">>}

\* scalars given to Bison.set
SetScalars == {IntV(3), BoolV(FALSE)}

\* Scheme(Option('a', bind_env=True), Option('b', default=1, field_type=int))
Scheme1 ==
    Scheme(<<Option("a", _no_default, "none", NoneV, BoolV(TRUE)),
             Option("b", IntV(1), "int", NoneV, NoneV)>>)

\* Scheme(DictOption('a', scheme=Scheme(Option('a', bind_env=True),
\*                                      Option('b', default=1, field_type=int))),
\*        ListOption('b', bind_env=True))
Scheme2 ==
    Scheme(<<DictOption("a", Scheme1, _no_default, BoolV(FALSE)),
             ListOption("b", _no_default, "none", NoneV, BoolV(TRUE))>>)

\* the objects the calls start from: Bison(scheme), then env_prefix and
\* auto_env assigned
\* a ListOption and a DictOption constructed without a bind_env argument
Scheme3 ==
    Scheme(<<DictOption("a", NoneV, _no_default, DictOption_bind_env),
             ListOption("b", _no_default, "none", NoneV, ListOption_bind_env)>>)
\* an Option of a type that cast does not support, after one it supports
Scheme4 ==
    Scheme(<<Option("b", IntV(1), "int", NoneV, BoolV(TRUE)),
             Option("a", _no_default, "dict", NoneV, Option_bind_env)>>)
Configured(scheme, env_prefix, auto_env) ==
    [Bison(scheme) EXCEPT !.env_prefix = env_prefix, !.auto_env = auto_env]
Setups ==
    {Configured(NoneV, NoneV, FALSE),
     Configured(Scheme1, StrV(<<"p">>), TRUE),
     Configured(Scheme2, StrV(<<"p", "_">>), FALSE),
     Configured(Scheme3, StrV(<<"p">>), TRUE),
     Configured(NoneV, StrV(<<"p", "_", "_">>), FALSE),
     Configured(Scheme4, StrV(<<"p", "_">>), TRUE)}

\* arguments of add_config_paths
PathArgs == {<<"d1", "d2">>}

\* contents of files
Yaml(doc) == [kind |-> "yaml", doc |-> doc]
Garbled == [kind |-> "garbled"]

\* states of the file system: the config files there are, with their content
Files ==
    {EmptyMap,
     Single(<<"d1", ".yml">>, Yaml(MapV(Single("a", IntV(2))))),
     Put(Single(<<"d1", ".yaml">>, Yaml(MapV(Put(Single("a", MapV(Single("a", IntV(2)))), "b", IntV(2))))),
         <<"d2", ".yml">>, Yaml(MapV(Single("a", IntV(2))))),
     Single(<<"d2", ".yml">>, Garbled),
     Single(<<"d2", ".yaml">>, Yaml(NoneV))}

\* states of os.environ
Environs ==
    {<<>>,
     << <<<<"P", "_", "A">>, <<"x", ",", "5">>>>, <<<<"P", "_", "B">>, <<"5">>>> >>,
     << <<<<"P", "_", "A">>, <<"7">>>>, <<<<"P", "_", "B">>, <<"x">>>>,
        <<<<"P", "_", "A", "_", "A">>, <<"7">>>> >>}

\* a layer with two keys at some level: the order of enumeration shows
LayersFork(b) ==
    \/ Forks(b._default)
    \/ IsMap(b._config) /\ Forks(b._config.map)
    \/ Forks(b._environment)
    \/ Forks(b._override)
OrdersOfLayers(b) == IF LayersFork(b) THEN Orders ELSE {AscendingOrder}

Init ==
    /\ dd = EmptyMap
    /\ bison \in Setups
    /\ last = NoCall

AddConfigPaths(paths) ==
    /\ last = NoCall
    /\ Len(bison.config_paths) + Len(paths) <= MaxPaths
    /\ bison' = Bison_add_config_paths(bison, paths)
    /\ last' = [NoCall EXCEPT !.op = "add_config_paths", !.paths = paths]
    /\ UNCHANGED dd

Set(key, value) ==
    /\ last = NoCall
    /\ bison' = Bison_set(bison, key, value)
    /\ last' = [NoCall EXCEPT !.op = "set", !.key = key, !.value = value]
    /\ UNCHANGED dd

\* the object and the record after a get whose outcome is r
GetOutcome(r, key, default, ord) ==
    /\ bison' = r.val
    /\ last' = [NoCall EXCEPT !.op = "get", !.key = key, !.default = default,
                              !.ord = ord, !.ret = r.ret, !.exc = r.exc]

Get(key, default, ord) ==
    /\ last = NoCall
    /\ GetOutcome(Bison_get(bison, key, default, ord), key, default, ord)
    /\ UNCHANGED dd

\* the object and the record after a parse whose outcome is r
ParseOutcome(r, requires_cfg, fs, environ) ==
    /\ bison' = r.val
    /\ last' = [NoCall EXCEPT !.op = "parse", !.requires_cfg = requires_cfg,
                              !.fs = fs, !.environ = environ, !.exc = r.exc]

Parse(requires_cfg, fs, environ) ==
    /\ last = NoCall
    /\ ParseOutcome(Bison_parse(bison, requires_cfg, fs, environ), requires_cfg, fs, environ)
    /\ UNCHANGED dd

\* the caller takes the outcome of the call
Return ==
    /\ last # NoCall
    /\ last' = NoCall
    /\ UNCHANGED <<dd, bison>>

Next ==
    \/ \E paths \in PathArgs : AddConfigPaths(paths)
    \/ \E key \in ResolverKeys, value \in SetScalars : Set(key, value)
    \/ \E key \in ResolverKeys, default \in Defaults :
          \E ord \in OrdersOfLayers(bison) : Get(key, default, ord)
    \/ \E requires_cfg \in BOOLEAN, fs \in Files, environ \in Environs :
          Parse(requires_cfg, fs, environ)
    \/ Return

Spec == Init /\ [][Next]_vars

---------------------------------------------------------------------------
\* Vocabulary of the properties: paths of a nested dict, read without the
\* program's own lookups

\* paths long enough for every dict the calls of the model build
Paths == UNION {[1..n -> Segments] : n \in 1..(MaxKeyLen + 1)}

\* p addresses an entry of d: each segment is a key of the dict reached
RECURSIVE Has(_, _)
Has(d, p) ==
    /\ Head(p) \in DOMAIN d
    /\ \/ Len(p) = 1
       \/ IsMap(d[Head(p)]) /\ Has(d[Head(p)].map, Tail(p))

\* the value at p, for Has(d, p)
RECURSIVE ValAt(_, _)
ValAt(d, p) ==
    IF Len(p) = 1 THEN d[Head(p)] ELSE ValAt(d[Head(p)].map, Tail(p))

\* p addresses a value of d that is not a dict
LeafAt(d, p) == Has(d, p) /\ ~IsMap(ValAt(d, p))

Prefix(p, i) == SubSeq(p, 1, i)
IsPrefix(p, q) == Len(p) <= Len(q) /\ Prefix(q, Len(p)) = p

\* a proper prefix of key addresses a value of d that is not a dict
NonMapPrefix(d, key) == \E i \in 1..(Len(key) - 1) : LeafAt(d, Prefix(key, i))

\* a segment of key is absent from the dict its predecessors reach
MissingSegment(d, key) ==
    \E i \in 1..Len(key) :
        /\ ~Has(d, Prefix(key, i))
        /\ i > 1 => Has(d, Prefix(key, i - 1)) /\ IsMap(ValAt(d, Prefix(key, i - 1)))

\* some path holds a dict in x and a non-dict in y, or the reverse
RECURSIVE Conflict(_, _)
Conflict(x, y) ==
    \E k \in DOMAIN x \cap DOMAIN y :
        \/ IsMap(x[k]) # IsMap(y[k])
        \/ IsMap(x[k]) /\ IsMap(y[k]) /\ Conflict(x[k].map, y[k].map)

---------------------------------------------------------------------------
\* Properties of the DotDict (SpecMap)

\* C4: after set(k, v), get(k) returns v, whatever the DotDict held before
\* (also when a proper prefix of k held a scalar, a list or a dict).
C4_SetGetRoundTrip ==
    last.op = "set" => DotDict_get(dd, last.key, NoneV) = last.value

\* a set of a three-segment key whose first segment held a list
C4_Witness ==
    /\ last.op = "set"
    /\ Len(last.key) = 3
    /\ LeafAt(last.pre, Prefix(last.key, 1))
    /\ ValAt(last.pre, Prefix(last.key, 1)).kind = "list"
    /\ DotDict_get(dd, last.key, NoneV) = last.value

\* the proper prefixes of key
ProperPrefixes(key) == {Prefix(key, i) : i \in 1..(Len(key) - 1)}

\* p is outside what set(key, .) may change in d: it is no prefix of key, no
\* extension of key, and no extension of a proper prefix of key that holds a
\* value that is not a dict
Untouched(d, key, p) ==
    /\ ~IsPrefix(p, key)
    /\ ~IsPrefix(key, p)
    /\ \A q \in ProperPrefixes(key) : LeafAt(d, q) => ~IsPrefix(q, p)

\* C19: after set(k, v), every path that is neither k, an extension of k, nor
\* an extension of a proper prefix of k that held a non-dict keeps its value
\* (and stays absent if it was); a proper prefix of k that held a dict keeps
\* all its other entries; one that held a non-dict is replaced by the nested
\* dicts built for the rest of k around v.
C19_SetFrame ==
    last.op = "set" =>
        /\ \A p \in Paths :
               Untouched(last.pre, last.key, p) =>
                   /\ Has(dd, p) <=> Has(last.pre, p)
                   /\ Has(last.pre, p) => ValAt(dd, p) = ValAt(last.pre, p)
        /\ \A i \in 1..(Len(last.key) - 1) :
               /\ (Has(last.pre, Prefix(last.key, i)) /\ ~LeafAt(last.pre, Prefix(last.key, i))) =>
                      /\ Has(dd, Prefix(last.key, i))
                      /\ IsMap(ValAt(dd, Prefix(last.key, i)))
                      /\ \A x \in DOMAIN ValAt(last.pre, Prefix(last.key, i)).map
                                      \ {last.key[i + 1]} :
                             /\ x \in DOMAIN ValAt(dd, Prefix(last.key, i)).map
                             /\ ValAt(dd, Prefix(last.key, i)).map[x]
                                    = ValAt(last.pre, Prefix(last.key, i)).map[x]
               /\ LeafAt(last.pre, Prefix(last.key, i)) =>
                      /\ Has(dd, Prefix(last.key, i))
                      /\ ValAt(dd, Prefix(last.key, i))
                             = Wrap(SubSeq(last.key, i + 1, Len(last.key)), last.value)

\* a set through a dict that has another entry, onto a non-dict one level
\* down: the sibling stays, the non-dict is replaced
C19_Witness ==
    /\ last.op = "set"
    /\ Len(last.key) = 3
    /\ Has(last.pre, Prefix(last.key, 1))
    /\ LeafAt(last.pre, Prefix(last.key, 2))
    /\ \E x \in Segments \ {last.key[2]} :
           /\ Has(last.pre, <<last.key[1], x>>)
           /\ Has(dd, <<last.key[1], x>>)
    /\ ValAt(dd, Prefix(last.key, 2)) = MapV(Single(last.key[3], last.value))

\* C5: get(k, d) returns d when a proper prefix of k addresses a value that
\* is not a dict.
C5_GetOverNonMap ==
    (last.op = "get" /\ NonMapPrefix(last.pre, last.key)) => last.ret = last.default

\* C6: get(k, d) returns d when a segment of k is absent, at any depth.
C6_GetMissingDefault ==
    (last.op = "get" /\ MissingSegment(last.pre, last.key)) => last.ret = last.default

\* C7: merge(source) without a dict/non-dict conflict is a deep union: it
\* completes, every leaf path of source holds source's value, and every leaf
\* path of the target that source does not have keeps its value.
C7_MergeDeepUnion ==
    (last.op = "merge" /\ ~Conflict(last.pre, last.source)) =>
        /\ last.exc = ""
        /\ \A p \in Paths :
              /\ LeafAt(last.source, p) =>
                    Has(dd, p) /\ ValAt(dd, p) = ValAt(last.source, p)
              /\ (LeafAt(last.pre, p) /\ ~Has(last.source, p)) =>
                    Has(dd, p) /\ ValAt(dd, p) = ValAt(last.pre, p)

\* a merge that adds a sibling below the top level: a nested leaf of the
\* target and a nested leaf of source end up in the same dict
C7_Witness ==
    /\ last.op = "merge"
    /\ ~Conflict(last.pre, last.source)
    /\ \E p, q \in Paths :
          /\ Len(p) >= 2 /\ Len(q) = Len(p) /\ p # q
          /\ Prefix(p, Len(p) - 1) = Prefix(q, Len(q) - 1)
          /\ LeafAt(last.pre, p) /\ ~Has(last.source, p)
          /\ LeafAt(last.source, q) /\ ~Has(last.pre, q)
          /\ LeafAt(dd, p) /\ LeafAt(dd, q)

\* C8: merge(source) completes and, at every key of source where the
\* existing and the incoming value are not both dicts, the target holds
\* exactly the incoming value.
C8_MergeShapeConflict ==
    last.op = "merge" =>
        \A k \in DOMAIN last.source \cap DOMAIN last.pre :
            ~(IsMap(last.pre[k]) /\ IsMap(last.source[k])) =>
                /\ last.exc = ""
                /\ dd[k] = last.source[k]

\* C9: delete(k) of a contained key completes, k is no longer contained, and
\* every path that neither extends k nor leads to it keeps its value.
C9_DeleteExact ==
    (last.op = "delete" /\ DotDict_contains(last.pre, last.key)) =>
        /\ last.exc = ""
        /\ ~DotDict_contains(dd, last.key)
        /\ \A p \in Paths :
              (Has(last.pre, p) /\ ~IsPrefix(last.key, p) /\ ~IsPrefix(p, last.key)) =>
                  Has(dd, p) /\ ValAt(dd, p) = ValAt(last.pre, p)

\* C10: delete(k) of a key that is not contained raises KeyError and leaves
\* the DotDict as it was.
C10_DeleteMissing ==
    (last.op = "delete" /\ ~DotDict_contains(last.pre, last.key)) =>
        /\ last.exc = "KeyError"
        /\ dd = last.pre


---------------------------------------------------------------------------
\* Properties of the Bison object (Spec)

\* the four layers, lowest precedence first
Layers(b) == <<MapV(b._default), b._config, MapV(b._environment), MapV(b._override)>>

\* no path holds a dict in one layer and a non-dict in another
NoLayerConflict(b) ==
    /\ IsMap(b._config)
    /\ \A i, j \in 1..4 : i < j => ~Conflict(Layers(b)[i].map, Layers(b)[j].map)

\* the layers that contain the path p
Holders(b, p) == {i \in 1..4 : IsMap(Layers(b)[i]) /\ Has(Layers(b)[i].map, p)}

\* the value the highest layer containing p holds at p, for Holders(b, p) # {}
TopValue(b, p) ==
    LET i == CHOOSE h \in Holders(b, p) : \A g \in Holders(b, p) : g <= h
    IN  ValAt(Layers(b)[i].map, p)

\* C1 as stated: with no dict/non-dict conflict between the layers, get(k)
\* returns the value that the highest-precedence layer containing k holds at k.
C1_TopLayerValue ==
    (last.op = "get" /\ NoLayerConflict(bison) /\ Holders(bison, last.key) # {})
        => last.exc = "" /\ last.ret = TopValue(bison, last.key)

\* C1, amended: with no dict/non-dict conflict between the layers, get(k)
\* returns the value of the highest-precedence layer containing k when that
\* value is not a dict; when it is a dict, get(k) returns the dict whose paths
\* are the paths any layer holds below k, each non-dict among them with the
\* value of the highest-precedence layer containing it.
C1_LayerPrecedence ==
    (last.op = "get" /\ NoLayerConflict(bison) /\ Holders(bison, last.key) # {})
        => /\ last.exc = ""
           /\ IF ~IsMap(TopValue(bison, last.key))
              THEN last.ret = TopValue(bison, last.key)
              ELSE /\ IsMap(last.ret)
                   /\ \A s \in Paths :
                         /\ Has(last.ret.map, s) <=> Holders(bison, last.key \o s) # {}
                         /\ (/\ Holders(bison, last.key \o s) # {}
                             /\ ~IsMap(TopValue(bison, last.key \o s)))
                                => ValAt(last.ret.map, s) = TopValue(bison, last.key \o s)

\* get('a.b') answers from the defaults, the only layer holding a.b, while
\* the file and the overrides hold siblings of it and other keys
C1_Witness ==
    /\ last.op = "get"
    /\ last.key = <<"a", "b">>
    /\ NoLayerConflict(bison)
    /\ Holders(bison, <<"a", "b">>) = {1}
    /\ Has(bison._config.map, <<"a", "a">>)
    /\ Has(bison._override, <<"b">>)
    /\ last.ret = ValAt(bison._default, <<"a", "b">>)

\* C2: in every reachable state the cache is unset or equals the merge, in
\* order, of the current defaults, file, environment and override layers.
C2_CacheCoherent ==
    \/ bison._full_config = NoneV
    \/ \E ord \in Orders :
          merge_layers(bison, ord) = [val |-> bison._full_config.map, exc |-> ""]

\* the call whose outcome is r returned v
Returns(r, v) == r.exc = "" /\ r.ret = v

\* C3: after set(k, v), get(k) returns v, whatever the defaults, the file and
\* the environment layers hold.
C3_OverrideRoundTrip ==
    last.op = "set"
        => \A ord \in OrdersOfLayers(bison) :
              Returns(Bison_get(bison, last.key, NoneV, ord), last.value)

---------------------------------------------------------------------------
\* Properties of Bison.parse (Spec)

\* no directory of the search-path list holds a config file
NoFileLocated(config_paths, fs) ==
    \A i \in DOMAIN config_paths, j \in DOMAIN Exts :
        <<config_paths[i], Exts[j]>> \notin DOMAIN fs

\* the file that discovery finds: the first, in the order of the list and
\* then of the extensions, that exists
IsLocated(config_paths, fs, i, j) ==
    /\ <<config_paths[i], Exts[j]>> \in DOMAIN fs
    /\ \A g \in DOMAIN config_paths, h \in DOMAIN Exts :
          (g < i \/ (g = i /\ h < j)) => <<config_paths[g], Exts[h]>> \notin DOMAIN fs

\* discovery finds a file and loading it fails
LocatedGarbled(config_paths, fs) ==
    \E i \in DOMAIN config_paths, j \in DOMAIN Exts :
        /\ IsLocated(config_paths, fs, i, j)
        /\ fs[<<config_paths[i], Exts[j]>>].kind = "garbled"

\* C11 as stated: parse(requires_cfg=True) raises whenever no config file is
\* located, the search-path list exhausted or empty.
C11_NotFoundRaises ==
    (last.op = "parse" /\ last.requires_cfg /\ NoFileLocated(bison.config_paths, last.fs))
        => last.exc = "BisonError"

\* C11, amended: parse(requires_cfg=True) raises when the search-path list is
\* not empty and is exhausted without a match; with an empty list no file is
\* looked for, and parse with nothing to read from the environment completes.
C11_NotFoundRaisesNonEmpty ==
    /\ (/\ last.op = "parse" /\ last.requires_cfg
        /\ bison.config_paths # <<>>
        /\ NoFileLocated(bison.config_paths, last.fs))
           => last.exc = "BisonError"
    /\ (/\ last.op = "parse" /\ last.requires_cfg
        /\ bison.config_paths = <<>> /\ last.environ = <<>>)
           => last.exc = ""

\* parse(requires_cfg=True) raised on a search-path list of two directories,
\* the only config file being in neither
C11_Witness ==
    /\ last.op = "parse" /\ last.requires_cfg
    /\ Len(bison.config_paths) = 2
    /\ NoFileLocated(bison.config_paths, last.fs)
    /\ last.exc = "BisonError"
    /\ bison.config_file = NoneV

\* C12: when discovery finds a file and loading it fails, parse raises for
\* both values of requires_cfg and the file layer keeps its content;
\* requires_cfg = False suppresses only the failure to find a file (parse with
\* nothing to read from the environment then completes).
C12_ParseFailureFatal ==
    [][(last'.op = "parse" /\ last.op = "none")
          => /\ LocatedGarbled(bison.config_paths, last'.fs)
                   => last'.exc = "BisonError" /\ bison'._config = bison._config
             /\ (/\ ~last'.requires_cfg /\ last'.environ = <<>>
                 /\ NoFileLocated(bison.config_paths, last'.fs))
                   => last'.exc = ""]_vars

\* parse(requires_cfg=False) raised on a file that does not load, the file
\* layer holding what an earlier parse read
C12_Witness ==
    /\ last.op = "parse" /\ ~last.requires_cfg
    /\ LocatedGarbled(bison.config_paths, last.fs)
    /\ last.exc = "BisonError"
    /\ bison._config # MapV(EmptyMap)

---------------------------------------------------------------------------
\* SpecScheme: a Scheme or an option, and one call made on it

\* the most args of a Scheme
MaxArgs == 2
SeqsUpTo(S, n) == UNION {[1..k -> S] : k \in 0..n}

\* options of the schemes validated: every kind under the name "a", two
\* Options under the name "b"
ValidateOptions ==
    {Option("a", _no_default, "int", NoneV, Option_bind_env),
     Option("a", NoneV, "int", NoneV, Option_bind_env),
     Option("a", _no_default, "none", ListV(<<IntV(1)>>), Option_bind_env),
     DictOption("a", Scheme(<<Option("a", _no_default, "int", NoneV, Option_bind_env)>>),
                _no_default, DictOption_bind_env),
     DictOption("a", NoneV, MapV(EmptyMap), DictOption_bind_env),
     ListOption("a", _no_default, "int", NoneV, ListOption_bind_env),
     ListOption("a", ListV(<<>>), "none",
                Scheme(<<Option("a", IntV(1), "int", NoneV, Option_bind_env)>>),
                ListOption_bind_env),
     Option("b", _no_default, "int", NoneV, Option_bind_env),
     Option("b", NoneV, "int", NoneV, Option_bind_env)}
ValidateSchemes == {Scheme(args) : args \in SeqsUpTo(ValidateOptions, MaxArgs)}

\* the configurations validated: dicts over the segments, and a non-dict
ConfigValues ==
    {NoneV, IntV(1), BoolV(TRUE), ListV(<<IntV(1)>>), ListV(<<MapV(Single("a", NoneV))>>),
     MapV(EmptyMap), MapV(Single("a", IntV(1)))}
Configs ==
    {MapV(f) : f \in UNION {[D -> ConfigValues] : D \in SUBSET Segments}} \cup {ListV(<<>>)}

\* the options, keys, prefixes and environments of Option.parse_env
ParseEnvOptions ==
    {Option("a", _no_default, t, NoneV, bind_env) :
        t \in {"none", "int"},
        bind_env \in {BoolV(FALSE), BoolV(TRUE), StrV(<<"X">>), Option_bind_env}}
EnvKeys == {<<"a">>, <<"a", "b">>}
Prefixes == {NoneV, StrV(<<>>), StrV(<<"p">>), StrV(<<"s", "_">>)}
OptionEnvirons ==
    {<<>>,
     << <<<<"P", "A">>, <<"5">>>>, <<<<"X">>, <<"7">>>>, <<<<"A", "_", "B">>, <<"x">>>> >>,
     << <<<<"A">>, <<"5">>>>, <<<<"S", "_", "A">>, <<"6">>>>,
        <<<<"S", "_", "A", "_", "B">>, <<"8">>>>, <<<<"P", "A", "_", "B">>, <<"x">>>> >>}

\* the schemes nested in the DictOptions and ListOptions of BuildOptions
Nested ==
    {Scheme(<<>>),
     Scheme(<<Option("a", _no_default, "none", NoneV, Option_bind_env)>>),
     Scheme(<<Option("a", IntV(1), "none", NoneV, Option_bind_env)>>),
     Scheme(<<Option("a", NoneV, "none", NoneV, Option_bind_env),
              ListOption("b", _no_default, "none",
                         Scheme(<<Option("a", IntV(1), "none", NoneV, Option_bind_env)>>),
                         ListOption_bind_env)>>),
     Scheme(<<DictOption("b", Scheme(<<Option("a", IntV(1), "none", NoneV, Option_bind_env)>>),
                         _no_default, DictOption_bind_env)>>),
     Scheme(<<DictOption("b", Scheme(<<Option("a", _no_default, "none", NoneV, Option_bind_env)>>),
                         _no_default, DictOption_bind_env)>>)}

\* options of the schemes whose defaults are built and that are flattened:
\* every kind under the name "a", some under the name "b"
BuildOptions ==
    {Option("a", default, "none", NoneV, Option_bind_env) :
         default \in {_no_default, NoneV, IntV(2)}}
    \cup {ListOption("a", _no_default, "none",
                     Scheme(<<Option("a", IntV(1), "none", NoneV, Option_bind_env)>>),
                     ListOption_bind_env),
          ListOption("a", ListV(<<>>), "none", NoneV, ListOption_bind_env)}
    \cup {DictOption("a", scheme, default, DictOption_bind_env) :
              scheme \in Nested \cup {NoneV},
              default \in {_no_default, MapV(Single("b", IntV(3)))}}
    \cup {Option("b", _no_default, "none", NoneV, Option_bind_env),
          Option("b", IntV(2), "none", NoneV, Option_bind_env),
          ListOption("b", _no_default, "none",
                     Scheme(<<Option("a", IntV(1), "none", NoneV, Option_bind_env)>>),
                     ListOption_bind_env),
          DictOption("b", Scheme(<<Option("a", _no_default, "none", NoneV, Option_bind_env)>>),
                     _no_default, DictOption_bind_env),
          DictOption("b", Scheme(<<Option("a", IntV(1), "none", NoneV, Option_bind_env)>>),
                     MapV(Single("b", IntV(3))), DictOption_bind_env)}
BuildSchemes == {Scheme(args) : args \in SeqsUpTo(BuildOptions, MaxArgs)}

\* the options and values of Option.validate
TypeNames == {"none", "int", "bool", "float", "str", "dict"}
ChoiceLists == {NoneV, ListV(<<IntV(1), StrV(<<"x">>)>>), ListV(<<>>)}
TypedOptions ==
    {Option("a", _no_default, t, choices, Option_bind_env) :
         t \in TypeNames, choices \in ChoiceLists}
OptionValues ==
    {NoneV, IntV(1), IntV(2), BoolV(TRUE), BoolV(FALSE), FloatV(1), FloatV(2),
     StrV(<<"x">>), StrV(<<>>), ListV(<<IntV(1)>>), MapV(EmptyMap)}

\* the strings cast by Option.cast
CastStrings ==
    {<<>>, <<"1">>, <<"5">>, <<"x">>, <<"t">>,
     <<"t", "r", "u", "e">>, <<"T", "r", "u", "e">>, <<"T", "R", "U", "E">>,
     <<"t", "R", "u", "E">>, <<"t", "r", "u", "e", "s">>, <<"t", "r", "u">>,
     <<"f", "a", "l", "s", "e">>, <<"F", "a", "l", "s", "e">>}

\* the ListOptions and values of ListOption.validate
MemberSchemes ==
    {NoneV, StrV(<<"x">>),
     Scheme(<<Option("a", _no_default, "int", NoneV, Option_bind_env)>>)}
ListOptions ==
    {ListOption("a", _no_default, member_type, member_scheme, ListOption_bind_env) :
         member_type \in {"none", "int", "str"}, member_scheme \in MemberSchemes}
ListValues ==
    {ListV(items) : items \in SeqsUpTo({IntV(1), BoolV(TRUE), StrV(<<"x">>),
                                         MapV(Single("a", IntV(1))), MapV(EmptyMap)}, MaxArgs)}
    \cup {NoneV, IntV(1), StrV(<<"x">>), MapV(EmptyMap)}

\* the environments of DictOption.parse_env: up to MaxVars of these variables,
\* in every order of enumeration
MaxVars == 3
DictVariables ==
    {<<<<"P", "_", "A", "_", "A">>, <<"1">>>>,
     <<<<"P", "_", "A", "_", "A", "_", "B">>, <<"2">>>>,
     <<<<"P", "_", "A", "_", "B">>, <<"3">>>>,
     <<<<"P", "_", "B">>, <<"4">>>>}
DictEnvirons ==
    {e \in SeqsUpTo(DictVariables, MaxVars) : \A i, j \in DOMAIN e : e[i] = e[j] => i = j}
DictOptions ==
    {DictOption("a", NoneV, _no_default, bind_env) : bind_env \in {BoolV(TRUE), DictOption_bind_env}}

InitScheme ==
    /\ dd = EmptyMap
    /\ bison = Bison(NoneV)
    /\ last = NoCall

SchemeValidate(scheme, config) ==
    /\ last = NoCall
    /\ last' = [NoCall EXCEPT !.op = "validate", !.scheme = scheme, !.config = config,
                              !.exc = Scheme_validate(scheme, config)]
    /\ UNCHANGED <<dd, bison>>

OptionParseEnv(opt, key, prefix, auto_env, environ) ==
    /\ last = NoCall
    /\ last' = [NoCall EXCEPT !.op = "parse_env", !.opt = opt, !.key = key,
                              !.prefix = prefix, !.auto_env = auto_env, !.environ = environ,
                              !.ret = Option_parse_env(opt, key, prefix, auto_env, environ).val,
                              !.exc = Option_parse_env(opt, key, prefix, auto_env, environ).exc]
    /\ UNCHANGED <<dd, bison>>

SchemeBuildDefaults(scheme) ==
    /\ last = NoCall
    /\ last' = [NoCall EXCEPT !.op = "build_defaults", !.scheme = scheme,
                              !.ret = MapV(build_defaults(scheme).val),
                              !.exc = build_defaults(scheme).exc]
    /\ UNCHANGED <<dd, bison>>

\* the first call of flatten on a scheme
SchemeFlatten(scheme) ==
    /\ last = NoCall
    /\ last' = [NoCall EXCEPT !.op = "flatten", !.scheme = scheme, !.calls = 1,
                              !._flat = Scheme_flatten(scheme, NoneV),
                              !.flat = Scheme_flatten(scheme, NoneV),
                              !.first = Scheme_flatten(scheme, NoneV)]
    /\ UNCHANGED <<dd, bison>>

\* a second call of flatten on the same scheme
SchemeFlattenAgain ==
    /\ last.op = "flatten" /\ last.calls = 1
    /\ last' = [last EXCEPT !.calls = 2,
                            !._flat = Scheme_flatten(last.scheme, last._flat),
                            !.flat = Scheme_flatten(last.scheme, last._flat)]
    /\ UNCHANGED <<dd, bison>>

OptionValidate(opt, value) ==
    /\ last = NoCall
    /\ last' = [NoCall EXCEPT !.op = "option_validate", !.opt = opt, !.value = value,
                              !.exc = Option_validate(opt, value)]
    /\ UNCHANGED <<dd, bison>>

OptionCast(opt, value) ==
    /\ last = NoCall
    /\ last' = [NoCall EXCEPT !.op = "cast", !.opt = opt, !.value = StrV(value),
                              !.ret = cast(opt, value).val,
                              !.exc = cast(opt, value).exc]
    /\ UNCHANGED <<dd, bison>>

ListOptionValidate(opt, value) ==
    /\ last = NoCall
    /\ last' = [NoCall EXCEPT !.op = "list_validate", !.opt = opt, !.value = value,
                              !.exc = ListOption_validate(opt, value)]
    /\ UNCHANGED <<dd, bison>>

DictOptionParseEnv(opt, key, prefix, environ) ==
    /\ last = NoCall
    /\ last' = [NoCall EXCEPT !.op = "dict_parse_env", !.opt = opt, !.key = key,
                              !.prefix = prefix, !.environ = environ,
                              !.ret = DictOption_parse_env(opt, key, prefix, FALSE, environ).val,
                              !.exc = DictOption_parse_env(opt, key, prefix, FALSE, environ).exc]
    /\ UNCHANGED <<dd, bison>>

\* one call on a fresh object, or the second call of flatten
NextScheme ==
    \/ /\ last = NoCall
       /\ \/ \E scheme \in ValidateSchemes, config \in Configs :
                 SchemeValidate(scheme, config)
          \/ \E scheme \in BuildSchemes : SchemeBuildDefaults(scheme)
          \/ \E opt \in TypedOptions, value \in OptionValues : OptionValidate(opt, value)
          \/ \E opt \in TypedOptions, value \in CastStrings : OptionCast(opt, value)
          \/ \E opt \in ListOptions, value \in ListValues : ListOptionValidate(opt, value)
          \/ \E opt \in DictOptions, prefix \in {NoneV, StrV(<<"p", "_">>)},
                environ \in DictEnvirons :
                 DictOptionParseEnv(opt, <<"a">>, prefix, environ)
          \/ \E scheme \in BuildSchemes : SchemeFlatten(scheme)
          \/ \E opt \in ParseEnvOptions, key \in EnvKeys, prefix \in Prefixes,
                auto_env \in BOOLEAN, environ \in OptionEnvirons :
                 OptionParseEnv(opt, key, prefix, auto_env, environ)
    \/ SchemeFlattenAgain

SpecScheme == InitScheme /\ [][NextScheme]_vars

---------------------------------------------------------------------------
\* Properties of Scheme and the options (SpecScheme)

\* the arg is present in the config and accepted, or absent with a default
Satisfied(arg, config) ==
    IF arg.name \in DOMAIN config
    THEN validate(arg, config[arg.name]) = ""
    ELSE arg.default # _no_default

\* the names the args of a scheme declare
Declared(scheme) == {scheme.args[i].name : i \in DOMAIN scheme.args}
Restrict(config, names) == [x \in DOMAIN config \cap names |-> config[x]]

\* C13: Scheme.validate on a dict succeeds exactly when every declared option
\* is present in the dict and accepted by its own validate, or absent and
\* declared with a default (None included); the keys no option declares
\* do not change the outcome.
C13_ValidateIff ==
    (last.op = "validate" /\ IsMap(last.config)) =>
        /\ last.exc = "" <=>
               \A i \in DOMAIN last.scheme.args : Satisfied(last.scheme.args[i], last.config.map)
        /\ last.exc # "" => last.exc = "SchemeValidationError"
        /\ last.exc = Scheme_validate(last.scheme,
                          MapV(Restrict(last.config.map, Declared(last.scheme))))

\* validate has passed a dict with an undeclared key, the only option
\* declared being absent with the default None
C13_Witness ==
    /\ last.op = "validate" /\ IsMap(last.config) /\ last.exc = ""
    /\ DOMAIN last.config.map \ Declared(last.scheme) # {}
    /\ \E i \in DOMAIN last.scheme.args :
           /\ last.scheme.args[i].name \notin DOMAIN last.config.map
           /\ last.scheme.args[i].default = NoneV

\* UPPER(prefix) + UPPER(key with '.' replaced by '_'), as one upper-casing
DerivedName(key, prefix) ==
    upper((IF prefix = NoneV THEN <<>> ELSE prefix.str) \o replace(KeyChars(key), ".", "_"))

\* the result of looking a variable up: its value cast, none when unset
Looked(opt, name, environ) ==
    IF \E i \in DOMAIN environ : environ[i][1] = name
    THEN cast(opt, environ[CHOOSE i \in DOMAIN environ : environ[i][1] = name][2])
    ELSE [val |-> NoneV, exc |-> ""]

\* the outcome of the call recorded in last
Outcome == [val |-> last.ret, exc |-> last.exc]

\* C14: Option.parse_env with bind_env False returns None whatever auto_env and
\* the environment are; with bind_env True it looks up UPPER(prefix) +
\* UPPER(key with '.' replaced by '_') whatever auto_env is; with bind_env a
\* string it looks up exactly that name, so the result is the same under every
\* prefix; with bind_env absent it looks up the derived name only if auto_env
\* is set and returns None otherwise.
C14_ParseEnvResolution ==
    last.op = "parse_env" =>
        /\ last.opt.bind_env = BoolV(FALSE) => Outcome = [val |-> NoneV, exc |-> ""]
        /\ last.opt.bind_env = BoolV(TRUE) =>
               Outcome = Looked(last.opt, DerivedName(last.key, last.prefix), last.environ)
        /\ last.opt.bind_env.kind = "str" =>
               /\ Outcome = Looked(last.opt, last.opt.bind_env.str, last.environ)
               /\ \A prefix \in Prefixes :
                      Option_parse_env(last.opt, last.key, prefix, last.auto_env,
                                       last.environ) = Outcome
        /\ last.opt.bind_env = NoneV =>
               Outcome = IF last.auto_env
                         THEN Looked(last.opt, DerivedName(last.key, last.prefix), last.environ)
                         ELSE [val |-> NoneV, exc |-> ""]

\* a string bind_env has been looked up under a prefix whose derived variable
\* is set to something else
C14_Witness ==
    /\ last.op = "parse_env"
    /\ last.opt.bind_env.kind = "str"
    /\ last.prefix = StrV(<<"p">>)
    /\ last.ret = (IF last.opt.type = "int" THEN IntV(7) ELSE StrV(<<"7">>))
    /\ Looked(last.opt, DerivedName(last.key, last.prefix), last.environ).val
           \notin {NoneV, last.ret}

---------------------------------------------------------------------------
\* Properties of the environment layer (Spec)

\* the bind_env of an option constructed without that argument
DefaultBindEnv(opt) ==
    CASE opt.cls = "Option" -> Option_bind_env
      [] opt.cls = "DictOption" -> DictOption_bind_env
      [] opt.cls = "ListOption" -> ListOption_bind_env

\* the variable(s) derived for the option at key are set: the variable of
\* that name, and for a DictOption a variable under that name and "_"
DerivedSet(opt, key, prefix, environ) ==
    IF opt.cls = "DictOption"
    THEN \E i \in DOMAIN environ :
            /\ startswith(environ[i][1], Append(DerivedName(key, prefix), "_"))
            /\ Len(environ[i][1]) > Len(DerivedName(key, prefix)) + 1
    ELSE \E i \in DOMAIN environ : environ[i][1] = DerivedName(key, prefix)

\* C15: with auto_env enabled, every option constructed without a bind_env
\* argument, whether Option, ListOption or DictOption, has a value in the
\* environment layer after a parse that found its derived variable(s) set.
C15_AutoEnvEveryKind ==
    (last.op = "parse" /\ last.exc = "" /\ bison.auto_env /\ bison.scheme # NoneV) =>
        \A i \in DOMAIN flatten(bison.scheme) :
            (/\ flatten(bison.scheme)[i][2].bind_env
                    = DefaultBindEnv(flatten(bison.scheme)[i][2])
             /\ DerivedSet(flatten(bison.scheme)[i][2], flatten(bison.scheme)[i][1],
                           bison.env_prefix, last.environ))
            => Has(bison._environment, flatten(bison.scheme)[i][1])

\* the direct children of a scheme have distinct names
DistinctNames(scheme) ==
    \A i, j \in DOMAIN scheme.args : scheme.args[i].name = scheme.args[j].name => i = j

\* the defaults of the scheme nested in a DictOption, empty without a scheme
NestedDefaults(arg) ==
    IF arg.scheme = NoneV THEN EmptyMap ELSE build_defaults(arg.scheme).val

\* C16: for a Scheme whose direct children have distinct names, build_defaults
\* maps every child that declares a default (None included) to exactly that
\* default, and maps a child that declares none only if it is a DictOption
\* whose nested scheme has defaults.
C16_EveryDefaultRecorded ==
    (last.op = "build_defaults" /\ last.exc = "" /\ DistinctNames(last.scheme)) =>
        \A i \in DOMAIN last.scheme.args :
            /\ last.scheme.args[i].default # _no_default =>
                   /\ last.scheme.args[i].name \in DOMAIN last.ret.map
                   /\ last.ret.map[last.scheme.args[i].name] = last.scheme.args[i].default
            /\ (/\ last.scheme.args[i].default = _no_default
                /\ last.scheme.args[i].name \in DOMAIN last.ret.map) =>
                   /\ last.scheme.args[i].cls = "DictOption"
                   /\ NestedDefaults(last.scheme.args[i]) # EmptyMap

RECURSIVE Reach(_, _)
Reach(scheme, p) ==
    IF Len(p) = 1
    THEN {scheme.args[i] : i \in {j \in DOMAIN scheme.args : scheme.args[j].name = Head(p)}}
    ELSE UNION {Reach(scheme.args[i].scheme, Tail(p)) :
                    i \in {j \in DOMAIN scheme.args :
                               /\ scheme.args[j].name = Head(p)
                               /\ scheme.args[j].cls = "DictOption"
                               /\ scheme.args[j].scheme # NoneV}}

\* C18: every call of flatten on a scheme returns the same mapping; its keys
\* are exactly the dotted paths of the options reached through the schemes of
\* DictOptions (an Option, a ListOption and a DictOption under its own name,
\* the entries of a DictOption's scheme under "<name>.<child>"), each key is
\* mapped to an option at that path, and the member scheme of a ListOption is
\* not descended into.
C18_FlattenPaths ==
    last.op = "flatten" =>
        /\ last.flat = last.first
        /\ {last.flat.items[i][1] : i \in DOMAIN last.flat.items}
               = {p \in Paths : Reach(last.scheme, p) # {}}
        /\ \A i, j \in DOMAIN last.flat.items :
               last.flat.items[i][1] = last.flat.items[j][1] => i = j
        /\ \A i \in DOMAIN last.flat.items :
               last.flat.items[i][2] \in Reach(last.scheme, last.flat.items[i][1])

\* flatten has been called twice on a scheme with a DictOption nested two
\* deep and a ListOption that has a member scheme
C18_Witness ==
    /\ last.op = "flatten" /\ last.calls = 2
    /\ \E i \in DOMAIN last.flat.items : last.flat.items[i][1] = <<"a", "b", "a">>
    /\ \E i \in DOMAIN last.scheme.args :
           /\ last.scheme.args[i].cls = "ListOption"
           /\ last.scheme.args[i].member_scheme # NoneV

---------------------------------------------------------------------------
\* Further properties of the DotDict (SpecMap)

\* C20: merge is idempotent: when source has no dict/non-dict conflict with
\* the DotDict, merging source a second time, its items enumerated in any
\* order, completes and leaves the DotDict as the first merge left it.
C20_MergeIdempotent ==
    (last.op = "merge" /\ ~Conflict(last.pre, last.source)) =>
        \A ord \in Orders :
            DotDict_merge(dd, last.source, ord) = [val |-> dd, exc |-> ""]

\* a merge without conflict that changed the DotDict, of a source with a
\* nested dict and a list
C20_Witness ==
    /\ last.op = "merge" /\ last.exc = ""
    /\ ~Conflict(last.pre, last.source)
    /\ dd # last.pre
    /\ \E k \in DOMAIN last.source \cap DOMAIN last.pre :
           IsMap(last.source[k]) /\ last.source[k].map # EmptyMap
    /\ \E p \in Paths : LeafAt(last.source, p) /\ ValAt(last.source, p).kind = "list"
    /\ DotDict_merge(dd, last.source, last.ord).val = dd

\* C21: contains(k) is true exactly when every successive segment of k is a
\* key of the dict reached so far, every value passed before the last segment
\* being a dict; it is false for a path below a present key whose value is not
\* a dict; it raises nothing and changes nothing.
C21_ContainsExact ==
    last.op = "contains" =>
        /\ last.ret = BoolV(Has(last.pre, last.key))
        /\ NonMapPrefix(last.pre, last.key) => last.ret = BoolV(FALSE)
        /\ last.exc = ""
        /\ dd = last.pre

\* contains has answered false for a path two levels below a present key
\* whose value is not a dict, below a dict
C21_Witness ==
    /\ last.op = "contains"
    /\ Len(last.key) = 3
    /\ Has(last.pre, Prefix(last.key, 1))
    /\ LeafAt(last.pre, Prefix(last.key, 2))
    /\ last.ret = BoolV(FALSE)

---------------------------------------------------------------------------
\* Further properties of the options (SpecScheme)

\* the runtime type of value is exactly the type named t
ExactType(value, t) ==
    IF t = "dict" THEN value.kind = "map" ELSE value.kind = t /\ value.kind # "none"

\* value is one of the choices, as Python compares: equal, numbers (bools
\* included) by their numeric value
OneOf(value, choices) ==
    \E i \in DOMAIN choices.list :
        \/ choices.list[i] = value
        \/ /\ IsNumber(choices.list[i]) /\ IsNumber(value)
           /\ number_of(choices.list[i]) = number_of(value)

\* C22: Option.validate(value) fails exactly when a type is declared and the
\* exact runtime type of value differs from it (a bool for int, an int for
\* float, None for any type), or when choices is declared and value is not one
\* of them; with neither declared every value is accepted.
C22_OptionValidate ==
    last.op = "option_validate" =>
        /\ last.exc # "" <=>
               \/ last.opt.type # "none" /\ ~ExactType(last.value, last.opt.type)
               \/ last.opt.choices # NoneV /\ ~OneOf(last.value, last.opt.choices)
        /\ last.exc \in {"", "SchemeValidationError"}
        /\ (last.opt.type = "int" /\ last.value.kind = "bool") => last.exc # ""
        /\ (last.opt.type = "float" /\ last.value.kind = "int") => last.exc # ""
        /\ (last.opt.type # "none" /\ last.value = NoneV) => last.exc # ""
        /\ (last.opt.type = "none" /\ last.opt.choices = NoneV) => last.exc = ""

\* True has been rejected for the type int although it equals the choice 1
C22_Witness ==
    /\ last.op = "option_validate"
    /\ last.opt.type = "int"
    /\ last.value = BoolV(TRUE)
    /\ last.opt.choices # NoneV /\ OneOf(last.value, last.opt.choices)
    /\ last.exc = "SchemeValidationError"

\* the string is "true" in some mix of upper and lower case
IsTrueWord(s) ==
    /\ Len(s) = 4
    /\ s[1] \in {"t", "T"} /\ s[2] \in {"r", "R"} /\ s[3] \in {"u", "U"} /\ s[4] \in {"e", "E"}

\* C23: for an Option of type bool, cast gives True exactly for the strings
\* whose lower-cased form is "true" and False for every other string ("false",
\* "1" and the empty string included); it raises nothing.
C23_BoolCast ==
    (last.op = "cast" /\ last.opt.type = "bool") =>
        /\ last.exc = ""
        /\ last.ret = BoolV(IsTrueWord(last.value.str))

\* a string in mixed case has been cast to True
C23_Witness ==
    /\ last.op = "cast" /\ last.opt.type = "bool"
    /\ last.value = StrV(<<"t", "R", "u", "E">>)
    /\ last.ret = BoolV(TRUE)

---------------------------------------------------------------------------
\* Further properties of Bison.parse (Spec)

\* a step that is a call of parse
ParseStep == last.op = "none" /\ last'.op = "parse"

\* a prefix is set and not empty
NonEmpty(prefix) == prefix # NoneV /\ prefix.str # <<>>

\* the string ends in one underscore and no more
EndsInOneUnderscore(s) ==
    /\ Len(s) >= 1 /\ s[Len(s)] = "_"
    /\ Len(s) >= 2 => s[Len(s) - 1] # "_"

\* the prefix with "_" appended unless it is unset, empty or ends in "_"
Normalised(prefix) ==
    IF NonEmpty(prefix) /\ prefix.str[Len(prefix.str)] # "_"
    THEN StrV(Append(prefix.str, "_"))
    ELSE prefix

\* the file phase of parse raises: the search-path list is not empty, and no
\* file is located while one is required, or the file located does not load
FilePhaseRaises(config_paths, requires_cfg, fs) ==
    /\ config_paths # <<>>
    /\ \/ requires_cfg /\ NoFileLocated(config_paths, fs)
       \/ LocatedGarbled(config_paths, fs)

\* C24 as stated: after every parse call a non-empty env prefix ends in
\* exactly one underscore; a prefix without a trailing underscore has one
\* appended by the parse, and one that has it is left unchanged.
C24_PrefixOneUnderscore ==
    [][ParseStep =>
          /\ NonEmpty(bison'.env_prefix) => EndsInOneUnderscore(bison'.env_prefix.str)
          /\ bison'.env_prefix = Normalised(bison.env_prefix)]_vars

\* C24, amended: a parse call whose file phase raises leaves the prefix as it
\* was; every other parse call appends one underscore to a non-empty prefix
\* that does not end in an underscore and leaves any other prefix unchanged
\* (also one that ends in several underscores), so that the prefix then ends
\* in an underscore and a further parse call does not change it.
C24_PrefixNormalised ==
    [][ParseStep =>
          IF FilePhaseRaises(bison.config_paths, last'.requires_cfg, last'.fs)
          THEN bison'.env_prefix = bison.env_prefix
          ELSE /\ bison'.env_prefix = Normalised(bison.env_prefix)
               /\ NonEmpty(bison'.env_prefix) =>
                      bison'.env_prefix.str[Len(bison'.env_prefix.str)] = "_"
               /\ Normalised(bison'.env_prefix) = bison'.env_prefix]_vars

\* a parse has completed on the object configured with the prefix "p", whose
\* prefix is now "p_" and whose environment layer is bound under it
C24_Witness ==
    /\ last.op = "parse" /\ last.exc = ""
    /\ bison.scheme = Scheme1
    /\ bison.env_prefix = StrV(<<"p", "_">>)
    /\ bison._environment # EmptyMap

\* C25: ListOption.validate rejects every value, the empty list included, when
\* both member_type and member_scheme are set or when member_scheme is set to
\* something that is not a Scheme; otherwise it accepts exactly the lists
\* whose every element has exactly the member type, or validates against the
\* member scheme; it rejects every value that is not a list.
C25_ListOptionValidate ==
    last.op = "list_validate" =>
        /\ last.exc \in {"", "SchemeValidationError"}
        /\ last.exc = "" <=>
               /\ last.value.kind = "list"
               /\ ~(last.opt.member_type # "none" /\ last.opt.member_scheme # NoneV)
               /\ last.opt.member_scheme # NoneV => last.opt.member_scheme.kind = "Scheme"
               /\ last.opt.member_type # "none" =>
                      \A i \in DOMAIN last.value.list :
                          ExactType(last.value.list[i], last.opt.member_type)
               /\ (last.opt.member_scheme # NoneV /\ last.opt.member_scheme.kind = "Scheme") =>
                      \A i \in DOMAIN last.value.list :
                          Scheme_validate(last.opt.member_scheme, last.value.list[i]) = ""

\* the empty list has been rejected for a member scheme that is not a Scheme
C25_Witness ==
    /\ last.op = "list_validate"
    /\ last.value = ListV(<<>>)
    /\ last.opt.member_type = "none"
    /\ last.opt.member_scheme = StrV(<<"x">>)
    /\ last.exc = "SchemeValidationError"

\* the last arg of the scheme that has the name of arg i
LastNamed(scheme, i) ==
    CHOOSE j \in DOMAIN scheme.args :
        /\ scheme.args[j].name = scheme.args[i].name
        /\ \A h \in DOMAIN scheme.args : scheme.args[h].name = scheme.args[i].name => h <= j

\* the value flatten has for a one-segment key
FlatAt(flat, name) ==
    flat.items[CHOOSE i \in DOMAIN flat.items : flat.items[i][1] = <<name>>][2]

\* C26: when two direct children of a Scheme share a name the later one wins:
\* flatten maps the name to the later child, and build_defaults has for the
\* name what the later child alone gives (its default, nothing if it declares
\* none), whichever of the two declare a default.
C26_LaterSiblingWins ==
    /\ last.op = "flatten" =>
           \A i \in DOMAIN last.scheme.args :
               FlatAt(last.flat, last.scheme.args[i].name)
                   = last.scheme.args[LastNamed(last.scheme, i)]
    /\ (last.op = "build_defaults" /\ last.exc = "") =>
           \A i \in DOMAIN last.scheme.args :
               Restrict(last.ret.map, {last.scheme.args[i].name})
                   = build_defaults(Scheme(<<last.scheme.args[LastNamed(last.scheme, i)]>>)).val

\* C27: parse runs the phases defaults, file, environment in that order and
\* stops at the first that raises: when the file phase raises (no file found
\* while one is required, or a file that does not load) parse raises, the
\* defaults layer is already updated from the scheme and the cache unset, the
\* file, environment and override layers are unchanged, and the environment is
\* not read: the prefix is not normalised and the outcome is the same for
\* every environment.
C27_PhaseOrder ==
    [][(ParseStep /\ FilePhaseRaises(bison.config_paths, last'.requires_cfg, last'.fs)) =>
          /\ last'.exc = "BisonError"
          /\ bison'._default =
                 (IF bison.scheme = NoneV THEN bison._default
                  ELSE Update(bison._default, build_defaults(bison.scheme).val))
          /\ bison'._full_config = NoneV
          /\ bison'._config = bison._config
          /\ bison'._environment = bison._environment
          /\ bison'._override = bison._override
          /\ bison'.env_prefix = bison.env_prefix
          /\ \A environ \in Environs :
                 Bison_parse(bison, last'.requires_cfg, last'.fs, environ)
                     = [val |-> bison', exc |-> last'.exc]]_vars

\* parse has raised in the file phase with the defaults of the scheme in
\* place, the environment layer empty although a bound variable is set, and
\* the prefix without its underscore
C27_Witness ==
    /\ last.op = "parse" /\ last.exc = "BisonError"
    /\ FilePhaseRaises(bison.config_paths, last.requires_cfg, last.fs)
    /\ bison.scheme = Scheme1
    /\ bison._default = Single("b", IntV(1))
    /\ bison._environment = EmptyMap
    /\ bison.env_prefix = StrV(<<"p">>)
    /\ \E i \in DOMAIN last.environ : last.environ[i][1] = <<"P", "_", "A">>

\* the environment phase meets a variable whose value its option cannot cast
EnvCastFails(b, environ) ==
    /\ b.scheme # NoneV
    /\ \E i \in DOMAIN flatten(b.scheme) :
           parse_env(flatten(b.scheme)[i][2], flatten(b.scheme)[i][1],
                     Normalised(b.env_prefix), b.auto_env, environ).exc # ""

\* C28: when the environment phase meets a variable whose value cannot be
\* cast to the type of its option, or whose option has a type cast does not
\* support, parse raises and the environment layer is as it was before the
\* call: no binding resolved earlier in the pass is applied.
C28_CastFailureAtomic ==
    [][(/\ ParseStep
        /\ ~FilePhaseRaises(bison.config_paths, last'.requires_cfg, last'.fs)
        /\ EnvCastFails(bison, last'.environ)) =>
          /\ last'.exc = "BisonError"
          /\ bison'._environment = bison._environment]_vars

\* parse has raised on a value that is not an int, after the pass resolved
\* another variable, the environment layer holding what an earlier parse bound
C28_Witness ==
    /\ last.op = "parse" /\ last.exc = "BisonError"
    /\ ~FilePhaseRaises(bison.config_paths, last.requires_cfg, last.fs)
    /\ bison.scheme = Scheme1
    /\ bison._environment = Put(Single("a", StrV(<<"x", ",", "5">>)), "b", IntV(5))
    /\ environ_get(last.environ, <<"P", "_", "A">>) = StrV(<<"7">>)
    /\ environ_get(last.environ, <<"P", "_", "B">>) = StrV(<<"x">>)

\* the bindings the environment phase resolves from the scheme of b against
\* environ
Resolvable(b, environ) ==
    parse_env_loop(flatten(b.scheme), Normalised(b.env_prefix), b.auto_env,
                   environ, EmptyMap).val

\* C29: after a parse call that completes, the second of two as well as the
\* first, the environment layer holds exactly the bindings resolvable from
\* the scheme against the environment of that call: a value bound from a
\* variable that is no longer set does not persist.
C29_EnvironmentTracked ==
    (last.op = "parse" /\ last.exc = "" /\ bison.scheme # NoneV) =>
        bison._environment = Resolvable(bison, last.environ)

\* the variables of an environment, as a set
VariablesOf(environ) == {environ[i] : i \in DOMAIN environ}

\* C30: DictOption.parse_env with bind_env = True returns, for the same key,
\* prefix and set of variables, the same nested dict in whatever order the
\* variables are enumerated, also when the rest of one matching name is a
\* prefix of the rest of another (P_A_A and P_A_A_B).
C30_OrderIndependent ==
    (last.op = "dict_parse_env" /\ last.opt.bind_env = BoolV(TRUE)) =>
        \A environ \in DictEnvirons :
            VariablesOf(environ) = VariablesOf(last.environ) =>
                DictOption_parse_env(last.opt, last.key, last.prefix, FALSE, environ)
                    = Outcome

=============================================================================
